---- MODULE Spec2Model ----
(***************************************************************************)
(* Session manager and shadow request correlator of the Philips Air+ MQTT  *)
(* client (lib/mqtt.js, createMqttClient).  The closure variables of       *)
(* createMqttClient are the state; every event-loop task (API call, timer  *)
(* callback, transport event, credential-supplier completion) is one       *)
(* action that runs the handler together with the promise continuations    *)
(* (microtasks) it triggers.  The cockatiel circuit breaker               *)
(* (circuitBreaker(handleAll, {halfOpenAfter, ConsecutiveBreaker(10)}))    *)
(* is modelled by what its execute() does: it owns no timer, the           *)
(* Open -> HalfOpen transition happens inside the first execute() that is  *)
(* called after halfOpenAfter has elapsed.                                 *)
(*                                                                         *)
(* Time is kept as the remaining delay of every armed timer; Advance moves *)
(* the clock to the next deadline.  The 50-minute rotation timer is the    *)
(* exception: it is far longer than every other delay, so relative to the  *)
(* events of the environment it can expire at any moment while armed.      *)
(* lastConnectedAt, lastDisconnectedAt and firstFailureAt only feed log    *)
(* lines and error contexts and are not part of the state; of the observer *)
(* callbacks, out records onError and onStateChange.                       *)
(***************************************************************************)
EXTENDS Integers, Sequences, FiniteSets, TLC

\* ---------------------------------------------------------------- bounds
MaxCalls == 2              \* connect() invocations in flight at once
MaxTransports == 3         \* transports opened in a run
MaxRequests == 2           \* shadow requests issued by the caller
MaxCallerOps == 5          \* API calls made by the caller in a run
MaxReconnectAttempts == 11 \* cap of the reconnectAttempts counter
MaxFailures == 11          \* cap of the breaker's consecutive-failure counter
Devices == {"d1", "d2"}

\* ------------------------------------------------------ program constants
RECONNECT_BASE_MS == 1000
RECONNECT_MAX_MS == 300000
MQTT_CREDENTIALS_REFRESH_MS == 3000000
halfOpenAfter == 300000
BreakerThreshold == 10
ConnectTimeoutMs == 15000
CloseWaitMs == 5000
DefaultTimeoutMs == 10000

NoTimer == -1
Null == "null"
Ops == {"get", "update"}
Keys == Ops \X Devices
NoKey == <<"none", "none">>
CallIds == 1..MaxCalls
TIds == 1..MaxTransports
ReqIds == 1..MaxRequests

Min(a, b) == IF a <= b THEN a ELSE b

RECURSIVE Pow2(_)
Pow2(n) == IF n <= 0 THEN 1 ELSE 2 * Pow2(n - 1)

\* delay of the retry scheduled when the counter has just become k
BackoffDelay(k) == Min(RECONNECT_BASE_MS * Pow2(k - 1), RECONNECT_MAX_MS)

VARIABLES
  client,                  \* 0 (null) or the id of the transport held in `client`
  connected,
  authorizedDeviceId,
  reconnectAttempts,
  reconnectTimer,          \* NoTimer or remaining ms
  credentialsRefreshTimer, \* NoTimer or remaining ms
  isIntentionalDisconnect,
  subscribedDevices,
  pendingRequests,         \* key -> request id of the stored entry, 0 = no entry
  reqTimer,                \* request id -> NoTimer or remaining ms of its deadline
  reqKey,                  \* request id -> key it was issued for
  settled,                 \* request id -> the resolve/reject invocations made on it
  nextReq,                 \* number of requests issued so far
  breaker,                 \* cockatiel policy: state, failure count, time since opened, test
  calls,                   \* connect() invocations in flight
  transports,              \* mqtt client objects, by order of creation: connection
                           \* state, end() called, 'close' still to come, topics
                           \* subscribed (by device), device its URL was signed for
  closeTimers,             \* armed 5 s close-wait fallbacks
  crashed,                 \* an exception escaped a timer callback
  out,                     \* what the last task called, returned and reported
  hist,                    \* observation only: held (a device has stayed requested since
                           \* a moment the session was Connected, and disconnect() was
                           \* not called since), down (disconnect() was called and the
                           \* caller has not called connect() since), ops (API calls made),
                           \* opened (transports created)
  parser,                  \* lib/parser.js: the call under observation, its arguments
                           \* and its result
  node                     \* account node: deviceStatus, statusCallbacks, armed
                           \* initial-state timers, what subscribe returned last

sessionVars == <<client, connected, authorizedDeviceId, reconnectAttempts, reconnectTimer,
                 credentialsRefreshTimer, isIntentionalDisconnect, subscribedDevices,
                 pendingRequests, reqTimer, reqKey, settled, nextReq, breaker, calls,
                 transports, closeTimers, crashed, out, hist>>

vars == <<sessionVars, parser, node>>

IdleCall == [pc |-> "idle", origin |-> "none", mode |-> "none", t |-> 0, hs |-> NoTimer]
NoTransport == [st |-> "none", ended |-> FALSE, closeDue |-> FALSE, subs |-> {},
                dev |-> Null]
ClosedBreaker == [state |-> "closed", failures |-> 0, openFor |-> 0, test |-> 0]

\* the state as one record, so that handlers compose like the functions they model
S == [client |-> client, connected |-> connected,
      authorizedDeviceId |-> authorizedDeviceId,
      reconnectAttempts |-> reconnectAttempts, reconnectTimer |-> reconnectTimer,
      credentialsRefreshTimer |-> credentialsRefreshTimer,
      isIntentionalDisconnect |-> isIntentionalDisconnect,
      subscribedDevices |-> subscribedDevices, pendingRequests |-> pendingRequests,
      reqTimer |-> reqTimer, reqKey |-> reqKey, settled |-> settled,
      nextReq |-> nextReq, breaker |-> breaker, calls |-> calls,
      transports |-> transports, closeTimers |-> closeTimers, crashed |-> crashed,
      out |-> <<>>, hist |-> hist, node |-> node, ovf |-> FALSE]

Emit(s, ev, arg) == [s EXCEPT !.out = Append(@, <<ev, arg>>)]

\* a transport nobody references and that will emit nothing more is forgotten
Referenced(s, t) ==
  \/ s.client = t
  \/ \E c \in CallIds : s.calls[c].pc \in {"awaitClose", "awaitHandshake"} /\ s.calls[c].t = t

Forget(s) ==
  [t \in TIds |->
     IF s.transports[t].st = "closed" /\ ~s.transports[t].closeDue /\ ~Referenced(s, t)
     THEN NoTransport ELSE s.transports[t]]

Apply(s) ==
  /\ ~s.ovf
  /\ client' = s.client
  /\ connected' = s.connected
  /\ authorizedDeviceId' = s.authorizedDeviceId
  /\ reconnectAttempts' = s.reconnectAttempts
  /\ reconnectTimer' = s.reconnectTimer
  /\ credentialsRefreshTimer' = s.credentialsRefreshTimer
  /\ isIntentionalDisconnect' = s.isIntentionalDisconnect
  /\ subscribedDevices' = s.subscribedDevices
  /\ pendingRequests' = s.pendingRequests
  /\ reqTimer' = s.reqTimer
  /\ reqKey' = s.reqKey
  /\ settled' = s.settled
  /\ nextReq' = s.nextReq
  /\ breaker' = s.breaker
  /\ calls' = s.calls
  /\ transports' = Forget(s)
  /\ closeTimers' = s.closeTimers
  /\ crashed' = s.crashed
  /\ out' = s.out
  /\ hist' = s.hist
  /\ parser' = parser
  /\ node' = s.node

\* ------------------------------------------------------------- lib/parser.js
\* JavaScript values carry their type; objects are functions from keys to values.

Num(n) == [type |-> "number", v |-> n]
Str(s) == [type |-> "string", v |-> s]
Bool(b) == [type |-> "boolean", v |-> b]
NaN == [type |-> "NaN", v |-> 0]
undefined == [type |-> "undefined", v |-> 0]
Obj(o) == [type |-> "object", v |-> o]

EmptyObject == [k \in {} |-> undefined]

Has(o, k) == k \in DOMAIN o
Put(o, k, x) == [f \in DOMAIN o \cup {k} |-> IF f = k THEN x ELSE o[f]]
\* o.k of an object: undefined when the key is absent
Get(o, k) == IF k \in DOMAIN o THEN o[k] ELSE undefined
\* { ...a, ...b }
Spread(a, b) == [f \in DOMAIN a \cup DOMAIN b |-> IF f \in DOMAIN b THEN b[f] ELSE a[f]]

\* x === n, x === s, x === true
IsNum(x, n) == x.type = "number" /\ x.v = n
IsStr(x, s) == x.type = "string" /\ x.v = s
IsTrue(x) == x.type = "boolean" /\ x.v

\* the decimal numerals the inputs use
Numerals ==
  [s \in {"0", "1", "2", "5", "12", "16", "17", "18", "19", "50", "215"} |->
     CASE s = "0" -> 0 [] s = "1" -> 1 [] s = "2" -> 2 [] s = "5" -> 5
       [] s = "12" -> 12 [] s = "16" -> 16 [] s = "17" -> 17 [] s = "18" -> 18
       [] s = "19" -> 19 [] s = "50" -> 50 [] s = "215" -> 215]

\* parseInt(x, 10) on integers and on strings
parseInt(x) ==
  IF x.type = "number" THEN x
  ELSE IF x.type = "string" /\ x.v \in DOMAIN Numerals THEN Num(Numerals[x.v])
  ELSE NaN

\* Boolean(x), and the truthiness of x in `x || y` and `if (x)`
Boolean(x) ==
  CASE x.type = "number" -> x.v # 0
    [] x.type = "string" -> x.v # ""
    [] x.type = "boolean" -> x.v
    [] x.type = "object" -> TRUE
    [] OTHER -> FALSE

\* String(x)
String(x) ==
  CASE x.type = "number" -> Str(ToString(x.v))
    [] x.type = "string" -> x
    [] x.type = "boolean" -> Str(IF x.v THEN "true" ELSE "false")
    [] x.type = "NaN" -> Str("NaN")
    [] OTHER -> Str("undefined")

\* Math.round(x / 10) of an integer x (halves round up)
RoundTenth(x) == IF x.type = "number" THEN Num((x.v + 5) \div 10) ELSE NaN

\* Math.round(remaining / nominal * 100), nominal > 0, in exact arithmetic
Percent(remaining, nominal) ==
  IF remaining.type = "number" /\ nominal.type = "number"
  THEN Num((200 * remaining.v + nominal.v) \div (2 * nominal.v))
  ELSE NaN

\* parseInt(x, 10) || 0
parseIntOr0(x) == IF Boolean(parseInt(x)) THEN parseInt(x) ELSE Num(0)

\* lib/constants.js
MODE_NAMES == [c \in {"A", "S", "T", "M"} |->
                 CASE c = "A" -> "auto" [] c = "S" -> "sleep"
                   [] c = "T" -> "turbo" [] c = "M" -> "manual"]

\* MODE_NAMES[x] || x
modeName(x) == IF x.type = "string" /\ x.v \in DOMAIN MODE_NAMES THEN Str(MODE_NAMES[x.v]) ELSE x

\* `mode_${modeCode}`
modeLabel(code) ==
  IF code.type = "number" THEN Str("mode_" \o ToString(code.v)) ELSE Str("mode_NaN")

\* the first of the keys that is `in` the object decides; none: the status is left alone
FirstOf(reported, keys) ==
  IF keys = <<>> THEN "" ELSE
  LET present == {i \in DOMAIN keys : Has(reported, keys[i])}
  IN IF present = {} THEN "" ELSE keys[CHOOSE i \in present : \A j \in present : i <= j]

parsePower(reported, status) ==
  IF Has(reported, "D03102") THEN Put(status, "power", Bool(IsNum(reported["D03102"], 1)))
  ELSE IF Has(reported, "powerOn") THEN Put(status, "power", Bool(Boolean(reported["powerOn"])))
  ELSE IF Has(reported, "pwr")
  THEN Put(status, "power", Bool(\/ IsStr(reported["pwr"], "1")
                                 \/ IsNum(reported["pwr"], 1)
                                 \/ IsTrue(reported["pwr"])))
  ELSE status

parsePassthrough(reported, status) ==
  LET s1 == IF Has(reported, "connected")
            THEN Put(status, "connected", Bool(Boolean(reported["connected"]))) ELSE status
      s2 == IF Has(reported, "productState")
            THEN Put(s1, "productState", reported["productState"]) ELSE s1
  IN IF Has(reported, "productError") THEN Put(s2, "error", reported["productError"]) ELSE s2

\* the combined code D0310C of the v3 protocol
\* a decoder that takes the sleep sentinel for a manual fan speed
parseModeCode_noSleep(reported, status) ==
  LET modeCode == parseInt(reported["D0310C"])
      s1 == Put(status, "modeRaw", modeCode)
  IN IF IsNum(modeCode, 0) THEN Put(s1, "mode", Str("auto"))
     ELSE IF IsNum(modeCode, 18) THEN Put(s1, "mode", Str("turbo"))
     ELSE IF modeCode.type = "number" /\ modeCode.v >= 1 /\ modeCode.v <= 17
     THEN Put(Put(s1, "mode", Str("manual")), "fanSpeed", modeCode)
     ELSE Put(s1, "mode", modeLabel(modeCode))

parseModeCode(reported, status) ==
  LET modeCode == parseInt(reported["D0310C"])
      s1 == Put(status, "modeRaw", modeCode)
  IN IF IsNum(modeCode, 0) THEN Put(s1, "mode", Str("auto"))
     ELSE IF IsNum(modeCode, 17) THEN Put(s1, "mode", Str("sleep"))
     ELSE IF IsNum(modeCode, 18) THEN Put(s1, "mode", Str("turbo"))
     ELSE IF modeCode.type = "number" /\ modeCode.v >= 1 /\ modeCode.v <= 16
     THEN Put(Put(s1, "mode", Str("manual")), "fanSpeed", modeCode)
     ELSE Put(s1, "mode", modeLabel(modeCode))

parseMode(reported, status) ==
  IF Has(reported, "D0310C") THEN parseModeCode(reported, status)
  ELSE IF Has(reported, "mode")
  THEN Put(Put(status, "mode", modeName(reported["mode"])), "modeRaw", reported["mode"])
  ELSE status

parseFanSpeed(reported, status) ==
  IF Has(status, "fanSpeed") THEN status
  ELSE IF Has(reported, "om") THEN Put(status, "fanSpeed", parseIntOr0(reported["om"]))
  ELSE IF Has(reported, "fanSpeed")
  THEN Put(status, "fanSpeed", parseIntOr0(reported["fanSpeed"]))
  ELSE status

\* status[attr] = parseInt(reported[k], 10) for the first key k present
parseNumber(reported, status, attr, keys) ==
  LET k == FirstOf(reported, keys)
  IN IF k = "" THEN status ELSE Put(status, attr, parseInt(reported[k]))

parseTemperature(reported, status) ==
  IF Has(reported, "D03224")
  THEN Put(status, "temperature", RoundTenth(parseInt(reported["D03224"])))
  ELSE parseNumber(reported, status, "temperature", <<"temp", "temperature">>)

parseChildLock(reported, status) ==
  IF Has(reported, "D0312B") THEN Put(status, "childLock", Bool(IsNum(reported["D0312B"], 1)))
  ELSE IF Has(reported, "cl")
  THEN Put(status, "childLock", Bool(\/ IsStr(reported["cl"], "1")
                                     \/ IsNum(reported["cl"], 1)
                                     \/ IsTrue(reported["cl"])))
  ELSE IF Has(reported, "childLock")
  THEN Put(status, "childLock", Bool(Boolean(reported["childLock"])))
  ELSE status

parseFirmware(reported, status) ==
  LET s1 == IF Has(reported, "ncpFirmwareVersion")
            THEN Put(status, "ncpFirmwareVersion", reported["ncpFirmwareVersion"]) ELSE status
      s2 == IF Has(reported, "hostFirmwareVersion")
            THEN Put(s1, "hostFirmwareVersion", reported["hostFirmwareVersion"]) ELSE s1
  IN IF Has(reported, "timezones")
     THEN Put(s2, "timezone", IF Boolean(Get(reported["timezones"].v, "iana"))
                              THEN reported["timezones"].v["iana"]
                              ELSE Get(reported["timezones"].v, "posix"))
     ELSE s2

\* the raw key of each filter counter, in the order the parser reads them
FilterKeys == << <<"D0540E", "replaceRemaining">>, <<"D05408", "replaceNominal">>,
                 <<"fltsts0", "cleanRemaining">>, <<"fltsts1", "replaceRemaining">>,
                 <<"fltt0", "cleanNominal">>, <<"fltt1", "replaceNominal">> >>

RECURSIVE parseFilterFrom(_, _, _)
parseFilterFrom(reported, filter, i) ==
  IF i > Len(FilterKeys) THEN filter
  ELSE parseFilterFrom(reported,
                       IF Has(reported, FilterKeys[i][1])
                       THEN Put(filter, FilterKeys[i][2], parseInt(reported[FilterKeys[i][1]]))
                       ELSE filter,
                       i + 1)

filterPercent(filter, stage) ==
  LET nominal == stage \o "Nominal"
      remaining == stage \o "Remaining"
  IN IF Boolean(Get(filter, nominal)) /\ Has(filter, remaining)
     THEN Put(filter, stage \o "Percent", Percent(filter[remaining], filter[nominal]))
     ELSE filter

parseFilter(reported, status) ==
  IF \E i \in DOMAIN FilterKeys : Has(reported, FilterKeys[i][1])
  THEN Put(status, "filter",
           Obj(filterPercent(filterPercent(parseFilterFrom(reported, EmptyObject, 1),
                                           "clean"),
                             "replace")))
  ELSE status

\* a parser that reports 0 for a PM2.5 reading the device did not send
parseReportedState_defaults(reported) ==
  LET s0 == [k \in {"raw"} |-> Obj(reported)]
      s1 == parsePassthrough(reported, parsePower(reported, s0))
      s2 == parseFanSpeed(reported, parseMode(reported, s1))
      s3 == IF Has(reported, "D03221") \/ Has(reported, "pm25")
            THEN parseNumber(reported, s2, "pm25", <<"D03221", "pm25">>)
            ELSE Put(s2, "pm25", Num(0))
      s4 == parseNumber(reported, s3, "humidity", <<"D03125", "rh", "humidity">>)
      s5 == parseTemperature(reported, s4)
      s6 == parseNumber(reported, s5, "airQualityIndex",
                        <<"D03120", "iaql", "airQualityIndex">>)
      s7 == parseNumber(reported, s6, "targetHumidity", <<"rhset", "targetHumidity">>)
      s8 == parseNumber(reported, s7, "waterLevel", <<"wl", "waterLevel">>)
      s9 == parseChildLock(reported, s8)
      s10 == parseNumber(reported, s9, "displayLight", <<"D0310D", "uil", "displayLight">>)
  IN parseFilter(reported, parseFirmware(reported, s10))

parseReportedState(reported) ==
  LET s0 == [k \in {"raw"} |-> Obj(reported)]
      s1 == parsePassthrough(reported, parsePower(reported, s0))
      s2 == parseFanSpeed(reported, parseMode(reported, s1))
      s3 == parseNumber(reported, s2, "pm25", <<"D03221", "pm25">>)
      s4 == parseNumber(reported, s3, "humidity", <<"D03125", "rh", "humidity">>)
      s5 == parseTemperature(reported, s4)
      s6 == parseNumber(reported, s5, "airQualityIndex",
                        <<"D03120", "iaql", "airQualityIndex">>)
      s7 == parseNumber(reported, s6, "targetHumidity", <<"rhset", "targetHumidity">>)
      s8 == parseNumber(reported, s7, "waterLevel", <<"wl", "waterLevel">>)
      s9 == parseChildLock(reported, s8)
      s10 == parseNumber(reported, s9, "displayLight", <<"D0310D", "uil", "displayLight">>)
  IN parseFilter(reported, parseFirmware(reported, s10))

\* the mixed-case spellings the commands use
toLowerCase(s) ==
  CASE s = "AUTO" -> "auto" [] s = "Sleep" -> "sleep" [] s = "Manual" -> "manual"
    [] OTHER -> s

\* Math.max(1, Math.min(max, n))
clamp(n, max) ==
  IF n.type # "number" THEN NaN
  ELSE Num(IF n.v < 1 THEN 1 ELSE IF n.v > max THEN max ELSE n.v)

\* the D0310C code of a command, when it has one
buildMode(options, desired, maxSpeed) ==
  IF Get(options, "mode") = undefined /\ Get(options, "fanSpeed") = undefined THEN desired
  ELSE LET mode == toLowerCase(IF Boolean(Get(options, "mode")) THEN options["mode"].v
                               ELSE "manual")
       IN IF mode = "auto" THEN Put(desired, "D0310C", Num(0))
          ELSE IF mode = "sleep" THEN Put(desired, "D0310C", Num(17))
          ELSE IF mode = "turbo" THEN Put(desired, "D0310C", Num(18))
          ELSE IF mode = "manual" /\ Get(options, "fanSpeed") # undefined
          THEN Put(desired, "D0310C", clamp(parseInt(options["fanSpeed"]), maxSpeed))
          ELSE desired

buildPower(options, desired) ==
  IF Get(options, "power") # undefined
  THEN Put(desired, "D03102", Num(IF Boolean(options["power"]) THEN 1 ELSE 0))
  ELSE desired

\* a builder that switches the device on whenever the command does not say
buildDesiredState_powerDefault(options) ==
  LET d1 == Put(buildPower(options, EmptyObject), "D03102",
                Num(IF Boolean(Get(options, "power")) \/ Get(options, "power") = undefined
                    THEN 1 ELSE 0))
      d2 == buildMode(options, d1, 16)
      d3 == IF Get(options, "targetHumidity") # undefined
            THEN Put(d2, "rhset", String(options["targetHumidity"])) ELSE d2
      d4 == IF Get(options, "childLock") # undefined
            THEN Put(d3, "cl", Str(IF Boolean(options["childLock"]) THEN "1" ELSE "0"))
            ELSE d3
  IN IF Get(options, "displayLight") # undefined
     THEN Put(d4, "uil", String(options["displayLight"])) ELSE d4

buildDesiredState(options) ==
  LET d1 == buildPower(options, EmptyObject)
      d2 == buildMode(options, d1, 16)
      d3 == IF Get(options, "targetHumidity") # undefined
            THEN Put(d2, "rhset", String(options["targetHumidity"])) ELSE d2
      d4 == IF Get(options, "childLock") # undefined
            THEN Put(d3, "cl", Str(IF Boolean(options["childLock"]) THEN "1" ELSE "0"))
            ELSE d3
  IN IF Get(options, "displayLight") # undefined
     THEN Put(d4, "uil", String(options["displayLight"])) ELSE d4

\* ...x of a value that may be undefined
SpreadOf(x) == IF x.type = "object" THEN x.v ELSE EmptyObject

mergeField(existing, update, merged, key) ==
  IF key = "raw"
  THEN Put(merged, "raw", Obj(Spread(SpreadOf(Get(existing, "raw")), SpreadOf(update["raw"]))))
  ELSE IF key = "filter" /\ Boolean(Get(existing, "filter"))
  THEN Put(merged, "filter", Obj(Spread(SpreadOf(existing["filter"]),
                                        SpreadOf(update["filter"]))))
  ELSE IF update[key] # undefined THEN Put(merged, key, update[key])
  ELSE merged

RECURSIVE mergeEntries(_, _, _, _)
mergeEntries(existing, update, merged, keys) ==
  IF keys = {} THEN merged
  ELSE LET key == CHOOSE k \in keys : TRUE
       IN mergeEntries(existing, update, mergeField(existing, update, merged, key),
                       keys \ {key})

\* a merge that lets the update's raw and filter replace the existing ones
mergeStatus_shallow(existing, update, now) ==
  Put(Spread(existing, [k \in {f \in DOMAIN update : update[f] # undefined} |-> update[k]]),
      "timestamp", now)

mergeStatus(existing, update, now) ==
  Put(mergeEntries(existing, update, existing, DOMAIN update), "timestamp", now)

\* ------------------------------------------- the v3-only parser (sibling file)

\* parseInt(x, 10) / 10
Tenth(x) ==
  IF x.type # "number" THEN NaN
  ELSE IF x.v % 10 = 0 THEN Num(x.v \div 10)
  ELSE [type |-> "decimal", v |-> x.v \div 10, tenths |-> x.v % 10]

v3_parseMode(reported, status) ==
  IF Has(reported, "D0310C") THEN parseModeCode(reported, status) ELSE status

v3_parseReportedState(reported) ==
  LET s0 == [k \in {"raw"} |-> Obj(reported)]
      s1 == IF Has(reported, "D03102")
            THEN Put(s0, "power", Bool(IsNum(reported["D03102"], 1))) ELSE s0
      s2 == v3_parseMode(reported, parsePassthrough(reported, s1))
      s3 == parseNumber(reported, s2, "pm25", <<"D03221">>)
      s4 == parseNumber(reported, s3, "humidity", <<"D03125">>)
      s5 == IF Has(reported, "D03224")
            THEN Put(s4, "temperature", Tenth(parseInt(reported["D03224"]))) ELSE s4
      s6 == parseNumber(reported, s5, "airQualityIndex", <<"D03120">>)
      s7 == parseNumber(reported, s6, "targetHumidity", <<"D03128">>)
      s8 == IF Has(reported, "D03103")
            THEN Put(s7, "childLock", Bool(IsNum(reported["D03103"], 1))) ELSE s7
      s9 == parseNumber(reported, s8, "displayLight", <<"D03105">>)
  IN parseFilter(reported, parseFirmware(reported, s9))

v3_buildDesiredState(options) ==
  LET d1 == buildPower(options, EmptyObject)
      d2 == buildMode(options, d1, 2)
      d3 == IF Get(options, "targetHumidity") # undefined
            THEN Put(d2, "D03128", parseInt(options["targetHumidity"])) ELSE d2
      d4 == IF Get(options, "childLock") # undefined
            THEN Put(d3, "D03103", Num(IF Boolean(options["childLock"]) THEN 1 ELSE 0))
            ELSE d3
  IN IF Get(options, "displayLight") # undefined
     THEN Put(d4, "D03105", parseInt(options["displayLight"])) ELSE d4

\* ------------------------------------------------ the parser under observation
\* One call of the parser module: its arguments and, once it has returned, its
\* result, under the names the source gives them.

NoCall == [fn |-> "none", returned |-> FALSE, reported |-> EmptyObject,
           status |-> EmptyObject, options |-> EmptyObject, desired |-> EmptyObject,
           existing |-> EmptyObject, update |-> EmptyObject, merged |-> EmptyObject]

\* ------------------------------------------------------------- initial state

SessionInit ==
  /\ client = 0
  /\ connected = FALSE
  /\ authorizedDeviceId = Null
  /\ reconnectAttempts = 0
  /\ reconnectTimer = NoTimer
  /\ credentialsRefreshTimer = NoTimer
  /\ isIntentionalDisconnect = FALSE
  /\ subscribedDevices = {}
  /\ pendingRequests = [k \in Keys |-> 0]
  /\ reqTimer = [r \in ReqIds |-> NoTimer]
  /\ reqKey = [r \in ReqIds |-> NoKey]
  /\ settled = [r \in ReqIds |-> <<>>]
  /\ nextReq = 0
  /\ breaker = ClosedBreaker
  /\ calls = [c \in CallIds |-> IdleCall]
  /\ transports = [t \in TIds |-> NoTransport]
  /\ closeTimers = {}
  /\ crashed = FALSE
  /\ out = <<>>
  /\ hist = [held |-> FALSE, down |-> FALSE, ops |-> 0, opened |-> 0]

\* the account node before any observer and any status
null == [type |-> "null", v |-> 0]
NoNode == [deviceStatus |-> EmptyObject, statusCallbacks |-> EmptyObject,
           initialState |-> [d \in Devices |-> 0], returned |-> null]

Init == SessionInit /\ parser = NoCall /\ node = NoNode

\* ------------------------------------------------------------- handlers

handleError(s, err) == Emit(s, "onError", err)

\* a backoff that doubles from the base without the 2^(k-1) offset
scheduleReconnect_double(s) ==
  IF s.reconnectTimer # NoTimer THEN s
  ELSE IF s.reconnectAttempts >= MaxReconnectAttempts THEN [s EXCEPT !.ovf = TRUE]
  ELSE [s EXCEPT !.reconnectAttempts = @ + 1,
                 !.reconnectTimer = Min(RECONNECT_BASE_MS * Pow2(s.reconnectAttempts + 1),
                                        RECONNECT_MAX_MS)]

scheduleReconnect(s) ==
  IF s.reconnectTimer # NoTimer THEN s
  ELSE IF s.reconnectAttempts >= MaxReconnectAttempts THEN [s EXCEPT !.ovf = TRUE]
  ELSE [s EXCEPT !.reconnectAttempts = @ + 1,
                 !.reconnectTimer = BackoffDelay(s.reconnectAttempts + 1)]

scheduleCredentialsRefresh(s) ==
  [s EXCEPT !.credentialsRefreshTimer = MQTT_CREDENTIALS_REFRESH_MS]

subscribeToDeviceTopics(s, d) ==
  IF s.client = 0 \/ ~s.connected THEN s
  ELSE [s EXCEPT !.transports[s.client].subs = @ \cup {d}]

unsubscribeFromDeviceTopics(s, d) ==
  IF s.client = 0 \/ ~s.connected THEN s
  ELSE [s EXCEPT !.transports[s.client].subs = @ \ {d}]

\* a handshake handler that keeps the attempt counter
handleConnect_noReset(s) ==
  LET s1 == [s EXCEPT !.connected = TRUE, !.hist.held = (s.subscribedDevices # {})]
      s2 == IF s1.authorizedDeviceId # Null /\ s1.authorizedDeviceId \in s1.subscribedDevices
            THEN subscribeToDeviceTopics(s1, s1.authorizedDeviceId) ELSE s1
  IN scheduleCredentialsRefresh(s2)

handleConnect(s) ==
  LET s1 == [s EXCEPT !.connected = TRUE, !.reconnectAttempts = 0,
                      !.hist.held = (s.subscribedDevices # {})]
      s2 == IF s1.authorizedDeviceId # Null /\ s1.authorizedDeviceId \in s1.subscribedDevices
            THEN subscribeToDeviceTopics(s1, s1.authorizedDeviceId) ELSE s1
      s3 == scheduleCredentialsRefresh(s2)
  IN s3

handleDisconnect(s) == [s EXCEPT !.connected = FALSE]


\* ------------------------------------------------- cockatiel circuit breaker

\* connectionBreaker.onStateChange listener
onStateChange(s, state) ==
  IF state = "open"
  THEN Emit([s EXCEPT !.reconnectTimer = NoTimer], "onError", "CircuitOpen")
  ELSE IF state = "halfOpen"
  THEN IF s.subscribedDevices # {} /\ s.reconnectTimer = NoTimer
       THEN scheduleReconnect(s) ELSE s
  ELSE s

\* CircuitBreakerPolicy.open(): no-op when already open
breakerOpen(s) ==
  IF s.breaker.state = "open" THEN s
  ELSE onStateChange([s EXCEPT !.breaker.state = "open", !.breaker.openFor = 0,
                               !.breaker.test = 0], "open")

\* CircuitBreakerPolicy.close(): only leaves HalfOpen
breakerClose(s) ==
  IF s.breaker.state = "halfOpen"
  THEN onStateChange([s EXCEPT !.breaker.state = "closed", !.breaker.test = 0], "closed")
  ELSE s

\* ConsecutiveBreaker.success() and what execute()/halfOpen() do after it
breakerSuccess(s, mode) ==
  LET s1 == [s EXCEPT !.breaker.failures = 0]
  IN IF mode = "test" THEN breakerClose(s1) ELSE s1

\* ConsecutiveBreaker.failure() and what execute()/halfOpen() do after it
breakerFailure(s, mode) ==
  IF s.breaker.failures >= MaxFailures THEN [s EXCEPT !.ovf = TRUE]
  ELSE LET s1 == [s EXCEPT !.breaker.failures = @ + 1]
       IN IF mode = "test" \/ s1.breaker.failures >= BreakerThreshold
          THEN breakerOpen(s1) ELSE s1

\* --------------------------------------------------------------- connect

\* what the code awaiting connect() does with its outcome: the caller gets the
\* promise, the reconnect timer and the rotation timer run their catch blocks
\* a reconnect callback that reports the failure and gives up
afterConnect_giveUp(s, origin, result) ==
  IF origin = "caller" THEN Emit(s, "connect.result", result)
  ELSE IF result = "ok" THEN s
  ELSE handleError(s, result)

afterConnect(s, origin, result) ==
  IF origin = "caller" THEN Emit(s, "connect.result", result)
  ELSE IF result = "ok" THEN s
  ELSE IF origin = "timer"
  THEN IF result # "BrokenCircuitError"
       THEN scheduleReconnect(handleError(s, result))
       ELSE handleError(s, result)
  ELSE scheduleReconnect(handleError(s, result))

\* a connect attempt that keeps the credentials of the previous one
callSupplier_cached(s, c) ==
  IF s.authorizedDeviceId = Null
  THEN [s EXCEPT !.calls[c].pc = "awaitInfo", !.calls[c].t = 0]
  ELSE IF s.hist.opened >= MaxTransports THEN [s EXCEPT !.ovf = TRUE]
  ELSE LET t == s.hist.opened + 1
       IN [s EXCEPT !.client = t,
                    !.transports[t] = [NoTransport EXCEPT !.st = "connecting",
                                                          !.dev = s.authorizedDeviceId],
                    !.hist.opened = t,
                    !.calls[c].pc = "awaitHandshake",
                    !.calls[c].t = t,
                    !.calls[c].hs = ConnectTimeoutMs]

callSupplier(s, c) == [s EXCEPT !.calls[c].pc = "awaitInfo", !.calls[c].t = 0]

\* connectInternal up to its first await
connectInternal(s, c) ==
  IF s.client # 0
  THEN [s EXCEPT !.isIntentionalDisconnect = TRUE,
                 !.transports[s.client].ended = TRUE,
                 !.transports[s.client].closeDue = TRUE,
                 !.closeTimers = @ \cup {[rem |-> CloseWaitMs, call |-> c]},
                 !.calls[c].pc = "awaitClose",
                 !.calls[c].t = s.client]
  ELSE callSupplier(s, c)

\* connectInternal after the close wait: client = null, then the supplier call
afterCloseWait(s, c) ==
  callSupplier([s EXCEPT !.client = 0,
                         !.closeTimers = {IF tm.call = c THEN [tm EXCEPT !.call = 0] ELSE tm
                                            : tm \in @}], c)

\* a breaker that lets an invocation through as soon as it is open, cool-down or not
execute_noCoolDown(s, c) ==
  IF s.breaker.state = "closed"
  THEN connectInternal([s EXCEPT !.calls[c].mode = "closed"], c)
  ELSE IF s.breaker.state = "halfOpen"
  THEN [s EXCEPT !.calls[c].pc = "awaitTest", !.calls[c].mode = "wait",
                 !.calls[c].t = s.breaker.test]
  ELSE LET s1 == connectInternal([s EXCEPT !.calls[c].mode = "test"], c)
           s2 == [s1 EXCEPT !.breaker.state = "halfOpen", !.breaker.test = c]
       IN onStateChange(s2, "halfOpen")

\* connectionBreaker.execute(() => connectInternal()) for the invocation in slot c
execute(s, c) ==
  IF s.breaker.state = "closed"
  THEN connectInternal([s EXCEPT !.calls[c].mode = "closed"], c)
  ELSE IF s.breaker.state = "halfOpen"
  THEN [s EXCEPT !.calls[c].pc = "awaitTest", !.calls[c].mode = "wait",
                 !.calls[c].t = s.breaker.test]
  ELSE IF s.breaker.openFor < halfOpenAfter
  THEN afterConnect([s EXCEPT !.calls[c] = IdleCall], s.calls[c].origin,
                    "BrokenCircuitError")
  ELSE LET s1 == connectInternal([s EXCEPT !.calls[c].mode = "test"], c)
           s2 == [s1 EXCEPT !.breaker.state = "halfOpen", !.breaker.test = c]
       IN onStateChange(s2, "halfOpen")

HasFreeCall(s) == \E c \in CallIds : s.calls[c].pc = "idle"
FreeCall(s) == CHOOSE c \in CallIds :
                 /\ s.calls[c].pc = "idle"
                 /\ \A c2 \in CallIds : s.calls[c2].pc = "idle" => c <= c2

connect(s, origin) ==
  IF ~HasFreeCall(s) THEN [s EXCEPT !.ovf = TRUE]
  ELSE LET c == FreeCall(s)
           s1 == [s EXCEPT !.calls[c] = [IdleCall EXCEPT !.pc = "start", !.origin = origin]]
       IN execute(s1, c)

\* reconnect() is connect() for the session; the rotation timer calls it
reconnect(s, origin) == connect(s, origin)

Waiters(s, c) == {w \in CallIds : s.calls[w].pc = "awaitTest" /\ s.calls[w].t = c}

RECURSIVE resumeWaiters(_, _)
resumeWaiters(s, ws) ==
  IF ws = {} THEN s
  ELSE LET w == CHOOSE x \in ws : \A y \in ws : x <= y
       IN resumeWaiters(execute(s, w), ws \ {w})

\* the promise of connectInternal settles: breaker bookkeeping, the invocations
\* that waited for a half-open test, then the code awaiting connect()
settleCall(s, c, result) ==
  LET call == s.calls[c]
      s1 == IF result = "ok" THEN breakerSuccess(s, call.mode)
            ELSE breakerFailure(s, call.mode)
      s2 == [s1 EXCEPT !.calls[c] = IdleCall]
      s3 == resumeWaiters(s2, Waiters(s2, c))
  IN afterConnect(s3, call.origin, result)

Owner(s, t) == {c \in CallIds : s.calls[c].pc = "awaitHandshake" /\ s.calls[c].t = t}


\* getMqttInfo() resolved with credentials for device d: mqttLib.connect
supplierResolved(s, c, d) ==
  IF s.hist.opened >= MaxTransports THEN [s EXCEPT !.ovf = TRUE]
  ELSE LET t == s.hist.opened + 1
       IN [s EXCEPT !.authorizedDeviceId = d,
                    !.client = t,
                    !.transports[t] = [NoTransport EXCEPT !.st = "connecting", !.dev = d],
                    !.hist.opened = t,
                    !.calls[c].pc = "awaitHandshake",
                    !.calls[c].t = t,
                    !.calls[c].hs = ConnectTimeoutMs]

\* getMqttInfo() rejected, or resolved without a host
supplierFailed(s, c) == settleCall(s, c, "SupplierError")

\* client.on('connect')
onTransportConnect(s, t) ==
  LET own == Owner(s, t)
      s1 == [s EXCEPT !.transports[t].st = "open",
                      !.calls = [c \in CallIds |->
                                   IF c \in own THEN [@[c] EXCEPT !.hs = NoTimer] ELSE @[c]]]
      s2 == handleConnect(s1)
  IN IF own # {} THEN settleCall(s2, CHOOSE c \in own : TRUE, "ok") ELSE s2

\* client.on('error')
onTransportError(s, t) ==
  LET own == Owner(s, t)
  IN IF own # {} THEN settleCall(s, CHOOSE c \in own : TRUE, "TransportError") ELSE s

CloseWaiters(s, t) == {c \in CallIds : s.calls[c].pc = "awaitClose" /\ s.calls[c].t = t}

RECURSIVE resumeCloseWaiters(_, _)
resumeCloseWaiters(s, ws) ==
  IF ws = {} THEN s
  ELSE LET w == CHOOSE x \in ws : \A y \in ws : x <= y
       IN resumeCloseWaiters(afterCloseWait(s, w), ws \ {w})

\* client.on('close'), then the once('close') handlers of waiting connectInternal calls
onTransportClose(s, t) ==
  LET s1 == [s EXCEPT !.transports[t].st = "closed", !.transports[t].closeDue = FALSE,
                       !.transports[t].subs = {}]
      s2 == handleDisconnect(s1)
      s3 == IF ~s2.isIntentionalDisconnect /\ s2.subscribedDevices # {}
            THEN scheduleReconnect(s2) ELSE s2
      s4 == [s3 EXCEPT !.isIntentionalDisconnect = FALSE]
  IN resumeCloseWaiters(s4, CloseWaiters(s4, t))

\* the 15 s handshake timer
onConnectTimeout(s, c) ==
  LET s1 == [s EXCEPT !.calls[c].hs = NoTimer]
  IN IF ~s1.connected THEN settleCall(s1, c, "ConnectTimeout") ELSE s1

\* the 5 s close-wait fallback: client.removeListener on whatever `client` is now
onCloseWaitTimeout(s, tm) ==
  LET s1 == [s EXCEPT !.closeTimers = @ \ {tm}]
  IN IF s1.client = 0 THEN [s1 EXCEPT !.crashed = TRUE]
     ELSE IF tm.call # 0 THEN afterCloseWait(s1, tm.call) ELSE s1


\* ------------------------------------------------------ request correlator

\* pending.resolve / pending.reject / reject of the promise of request r
settle(s, r, how) == Emit([s EXCEPT !.settled[r] = Append(@, how)], "settle", how)

\* look up the entry of a key; if present clear its timer, delete it, settle it
\* a response handler that settles the entry but neither deletes it nor clears its timer
settlePending_keep(s, key, how) ==
  LET r == s.pendingRequests[key]
  IN IF r # 0 THEN settle(s, r, how) ELSE s

\* a response handler that, finding no entry, settles the request last issued for the key
settlePending_late(s, key, how) ==
  LET r == s.pendingRequests[key]
      past == {x \in ReqIds : s.reqKey[x] = key}
  IN IF r # 0
     THEN settle([s EXCEPT !.reqTimer[r] = NoTimer, !.pendingRequests[key] = 0], r, how)
     ELSE IF past # {} THEN settle(s, CHOOSE x \in past : \A y \in past : y <= x, how)
     ELSE s

\* a response handler that settles every request ever issued for the key
RECURSIVE settleEach(_, _, _)
settleEach(s, rs, how) ==
  IF rs = {} THEN s
  ELSE LET r == CHOOSE x \in rs : \A y \in rs : x <= y
       IN settleEach(settle(s, r, how), rs \ {r}, how)

settlePending_all(s, key, how) ==
  LET r == s.pendingRequests[key]
  IN IF r # 0
     THEN settleEach([s EXCEPT !.reqTimer[r] = NoTimer, !.pendingRequests[key] = 0],
                     {x \in ReqIds : s.reqKey[x] = key}, how)
     ELSE s

settlePending(s, key, how) ==
  LET r == s.pendingRequests[key]
  IN IF r # 0
     THEN settle([s EXCEPT !.reqTimer[r] = NoTimer, !.pendingRequests[key] = 0], r, how)
     ELSE s

\* what JSON.parse made of the payload, by the fields the handler reads: a shadow
\* document (state, with its reported part, and no message) or an error document
\* (code and message, and no state)
Payloads == {"document", "error"}

ThingNotFound == "Thing not found"

\* a rejection that ignores the reason the message carries
rejection_generic(payload, fallback) == fallback

\* data.message || 'Shadow get rejected'
rejection(payload, fallback) == IF payload = "error" THEN ThingNotFound ELSE fallback

\* onStateChange(deviceId, state, source) of the session's observer
notify(s, d, source) == [s EXCEPT !.out = Append(@, <<"onStateChange", source, d>>)]

\* a handler that takes a delta for the answer to the pending update
handleMessage_deltaCorrelated(s, kind, d, payload) ==
  IF kind = "update/delta"
  THEN settlePending(IF payload = "document" THEN notify(s, d, "delta") ELSE s,
                     <<"update", d>>, "resolved")
  ELSE IF kind = "get/accepted"
  THEN LET s1 == settlePending(s, <<"get", d>>, "resolved")
       IN IF payload = "document" THEN notify(s1, d, "reported") ELSE s1
  ELSE IF kind = "get/rejected"
  THEN settlePending(s, <<"get", d>>, rejection(payload, "Shadow get rejected"))
  ELSE IF kind = "update/accepted" THEN settlePending(s, <<"update", d>>, "resolved")
  ELSE IF kind = "update/rejected"
  THEN settlePending(s, <<"update", d>>, rejection(payload, "Shadow update rejected"))
  ELSE s

\* a handler that reports a payload it cannot parse through onError
handleMessage_reportsMalformed(s, kind, d, payload) ==
  IF kind = "nonjson" THEN handleError(s, "SyntaxError")
  ELSE IF kind = "nomatch" THEN s
  ELSE IF kind = "get/accepted"
  THEN LET s1 == settlePending(s, <<"get", d>>, "resolved")
       IN IF payload = "document" THEN notify(s1, d, "reported") ELSE s1
  ELSE IF kind = "get/rejected"
  THEN settlePending(s, <<"get", d>>, rejection(payload, "Shadow get rejected"))
  ELSE IF kind = "update/accepted" THEN settlePending(s, <<"update", d>>, "resolved")
  ELSE IF kind = "update/rejected"
  THEN settlePending(s, <<"update", d>>, rejection(payload, "Shadow update rejected"))
  ELSE IF kind = "update/delta"
  THEN IF payload = "document" THEN notify(s, d, "delta") ELSE s
  ELSE s

handleMessage(s, kind, d, payload) ==
  IF kind = "nonjson" \/ kind = "nomatch" THEN s
  ELSE IF kind = "get/accepted"
  THEN LET s1 == settlePending(s, <<"get", d>>, "resolved")
       IN IF payload = "document" THEN notify(s1, d, "reported") ELSE s1
  ELSE IF kind = "get/rejected"
  THEN settlePending(s, <<"get", d>>, rejection(payload, "Shadow get rejected"))
  ELSE IF kind = "update/accepted" THEN settlePending(s, <<"update", d>>, "resolved")
  ELSE IF kind = "update/rejected"
  THEN settlePending(s, <<"update", d>>, rejection(payload, "Shadow update rejected"))
  ELSE IF kind = "update/delta"
  THEN IF payload = "document" THEN notify(s, d, "delta") ELSE s
  ELSE s

MsgKinds == {"get/accepted", "get/rejected", "update/accepted", "update/rejected",
             "update/delta", "nomatch", "nonjson"}

\* the deadline callback of request r: delete the entry stored under its key, reject
\* a deadline callback that rejects but leaves the entry in the table
onRequestTimeout_keep(s, r) ==
  settle([s EXCEPT !.reqTimer[r] = NoTimer], r, "Request timeout")

onRequestTimeout(s, r) ==
  settle([s EXCEPT !.reqTimer[r] = NoTimer, !.pendingRequests[s.reqKey[r]] = 0],
         r, "Request timeout")

\* getDeviceState without the connected guard
getDeviceState_unguarded(s, d, timeoutMs) ==
  IF s.nextReq >= MaxRequests THEN [s EXCEPT !.ovf = TRUE]
  ELSE LET key == <<"get", d>>
           existing == s.pendingRequests[key]
           s1 == IF existing # 0
                 THEN settle([s EXCEPT !.reqTimer[existing] = NoTimer], existing,
                             "Superseded")
                 ELSE s
           r == s1.nextReq + 1
           s2 == [s1 EXCEPT !.nextReq = r, !.reqKey[r] = key, !.reqTimer[r] = timeoutMs,
                            !.pendingRequests[key] = r]
       IN Emit(Emit(s2, "set", "get"), "publish", "get")

\* getDeviceState that arms no deadline for the request
getDeviceState_noDeadline(s, d, timeoutMs) ==
  IF ~s.connected \/ s.client = 0 THEN Emit(s, "getDeviceState.result", "Not connected")
  ELSE IF s.nextReq >= MaxRequests THEN [s EXCEPT !.ovf = TRUE]
  ELSE LET key == <<"get", d>>
           existing == s.pendingRequests[key]
           s1 == IF existing # 0
                 THEN settle([s EXCEPT !.reqTimer[existing] = NoTimer], existing,
                             "Superseded")
                 ELSE s
           r == s1.nextReq + 1
           s2 == [s1 EXCEPT !.nextReq = r, !.reqKey[r] = key,
                            !.pendingRequests[key] = r]
       IN Emit(Emit(s2, "set", "get"), "publish", "get")

\* getDeviceState that rejects the superseded request but leaves its deadline armed
getDeviceState_keepsTimer(s, d, timeoutMs) ==
  IF ~s.connected \/ s.client = 0 THEN Emit(s, "getDeviceState.result", "Not connected")
  ELSE IF s.nextReq >= MaxRequests THEN [s EXCEPT !.ovf = TRUE]
  ELSE LET key == <<"get", d>>
           existing == s.pendingRequests[key]
           s1 == IF existing # 0 THEN settle(s, existing, "Superseded") ELSE s
           r == s1.nextReq + 1
           s2 == [s1 EXCEPT !.nextReq = r, !.reqKey[r] = key, !.reqTimer[r] = timeoutMs,
                            !.pendingRequests[key] = r]
       IN Emit(Emit(s2, "set", "get"), "publish", "get")

getDeviceState(s, d, timeoutMs) ==
  IF ~s.connected \/ s.client = 0 THEN Emit(s, "getDeviceState.result", "Not connected")
  ELSE IF s.nextReq >= MaxRequests THEN [s EXCEPT !.ovf = TRUE]
  ELSE LET key == <<"get", d>>
           existing == s.pendingRequests[key]
           s1 == IF existing # 0
                 THEN settle([s EXCEPT !.reqTimer[existing] = NoTimer], existing,
                             "Superseded")
                 ELSE s
           r == s1.nextReq + 1
           s2 == [s1 EXCEPT !.nextReq = r, !.reqKey[r] = key, !.reqTimer[r] = timeoutMs,
                            !.pendingRequests[key] = r]
       IN Emit(Emit(s2, "set", "get"), "publish", "get")

\* updateDeviceState that replaces a pending entry without rejecting it
updateDeviceState_silent(s, d, timeoutMs) ==
  IF ~s.connected \/ s.client = 0 THEN Emit(s, "updateDeviceState.result", "Not connected")
  ELSE IF s.nextReq >= MaxRequests THEN [s EXCEPT !.ovf = TRUE]
  ELSE LET key == <<"update", d>>
           existing == s.pendingRequests[key]
           s1 == IF existing # 0 THEN [s EXCEPT !.reqTimer[existing] = NoTimer] ELSE s
           r == s1.nextReq + 1
           s2 == [s1 EXCEPT !.nextReq = r, !.reqKey[r] = key, !.reqTimer[r] = timeoutMs,
                            !.pendingRequests[key] = r]
       IN Emit(Emit(s2, "set", "update"), "publish", "update")

updateDeviceState(s, d, timeoutMs) ==
  IF ~s.connected \/ s.client = 0 THEN Emit(s, "updateDeviceState.result", "Not connected")
  ELSE IF s.nextReq >= MaxRequests THEN [s EXCEPT !.ovf = TRUE]
  ELSE LET key == <<"update", d>>
           existing == s.pendingRequests[key]
           s1 == IF existing # 0
                 THEN settle([s EXCEPT !.reqTimer[existing] = NoTimer], existing,
                             "Superseded")
                 ELSE s
           r == s1.nextReq + 1
           s2 == [s1 EXCEPT !.nextReq = r, !.reqKey[r] = key, !.reqTimer[r] = timeoutMs,
                            !.pendingRequests[key] = r]
       IN Emit(Emit(s2, "set", "update"), "publish", "update")

\* ------------------------------------------------------ session API

PendingIds(s) == {s.pendingRequests[k] : k \in Keys} \ {0}

RECURSIVE rejectAll(_, _)
rejectAll(s, rs) ==
  IF rs = {} THEN s
  ELSE LET r == CHOOSE x \in rs : \A y \in rs : x <= y
       IN rejectAll(settle([s EXCEPT !.reqTimer[r] = NoTimer], r, "Disconnected"), rs \ {r})

\* a disconnect that clears the table and the deadlines without rejecting anybody
disconnect_quiet(s) ==
  LET s1 == [s EXCEPT !.reconnectTimer = NoTimer, !.credentialsRefreshTimer = NoTimer,
                      !.reqTimer = [r \in ReqIds |-> NoTimer]]
      s3 == [s1 EXCEPT !.pendingRequests = [k \in Keys |-> 0], !.subscribedDevices = {}]
      s4 == IF s3.client # 0
            THEN [s3 EXCEPT !.transports[s3.client].ended = TRUE,
                            !.transports[s3.client].closeDue = TRUE,
                            !.client = 0]
            ELSE s3
  IN [s4 EXCEPT !.connected = FALSE, !.hist.held = FALSE, !.hist.down = TRUE]

disconnect(s) ==
  LET s1 == [s EXCEPT !.reconnectTimer = NoTimer, !.credentialsRefreshTimer = NoTimer]
      s2 == rejectAll(s1, PendingIds(s1))
      s3 == [s2 EXCEPT !.pendingRequests = [k \in Keys |-> 0], !.subscribedDevices = {}]
      s4 == IF s3.client # 0
            THEN [s3 EXCEPT !.transports[s3.client].ended = TRUE,
                            !.transports[s3.client].closeDue = TRUE,
                            !.client = 0]
            ELSE s3
  IN [s4 EXCEPT !.connected = FALSE, !.hist.held = FALSE, !.hist.down = TRUE]

subscribeDevice(s, d) ==
  LET s1 == [s EXCEPT !.subscribedDevices = @ \cup {d}, !.hist.held = @ \/ s.connected]
  IN IF s1.connected /\ d = s1.authorizedDeviceId THEN subscribeToDeviceTopics(s1, d)
     ELSE s1

unsubscribeDevice(s, d) ==
  LET s1 == [s EXCEPT !.subscribedDevices = @ \ {d},
                       !.hist.held = @ /\ (s.subscribedDevices \ {d} # {})]
  IN IF s1.connected THEN unsubscribeFromDeviceTopics(s1, d) ELSE s1

\* ------------------------------------------------------------- actions

Do_connect ==
  /\ ~crashed
  /\ hist.ops < MaxCallerOps
  /\ Apply(connect([S EXCEPT !.hist.down = FALSE, !.hist.ops = @ + 1], "caller"))

Do_disconnect ==
  /\ ~crashed
  /\ hist.ops < MaxCallerOps
  /\ Apply(disconnect([S EXCEPT !.hist.ops = @ + 1]))

Do_subscribeDevice(d) ==
  /\ ~crashed
  /\ hist.ops < MaxCallerOps
  /\ Apply(subscribeDevice([S EXCEPT !.hist.ops = @ + 1], d))

Do_unsubscribeDevice(d) ==
  /\ ~crashed
  /\ hist.ops < MaxCallerOps
  /\ Apply(unsubscribeDevice([S EXCEPT !.hist.ops = @ + 1], d))

Do_getDeviceState(d) ==
  /\ ~crashed
  /\ hist.ops < MaxCallerOps
  /\ Apply(getDeviceState([S EXCEPT !.hist.ops = @ + 1], d, DefaultTimeoutMs))

Do_updateDeviceState(d) ==
  /\ ~crashed
  /\ hist.ops < MaxCallerOps
  /\ Apply(updateDeviceState([S EXCEPT !.hist.ops = @ + 1], d, DefaultTimeoutMs))

ReconnectTimerFires ==
  /\ ~crashed
  /\ reconnectTimer = 0
  /\ Apply(connect([S EXCEPT !.reconnectTimer = NoTimer], "timer"))

CredentialsRefreshFires ==
  /\ ~crashed
  /\ credentialsRefreshTimer # NoTimer
  /\ Apply(reconnect([S EXCEPT !.credentialsRefreshTimer = NoTimer], "refresh"))

ConnectTimeoutFires(c) ==
  /\ ~crashed
  /\ calls[c].pc = "awaitHandshake"
  /\ calls[c].hs = 0
  /\ Apply(onConnectTimeout(S, c))

CloseWaitFires(tm) ==
  /\ ~crashed
  /\ tm.rem = 0
  /\ Apply(onCloseWaitTimeout(S, tm))

RequestTimeoutFires(r) ==
  /\ ~crashed
  /\ reqTimer[r] = 0
  /\ Apply(onRequestTimeout(S, r))

SupplierResolves(c, d) ==
  /\ ~crashed
  /\ calls[c].pc = "awaitInfo"
  /\ Apply(supplierResolved(S, c, d))

SupplierFails(c) ==
  /\ ~crashed
  /\ calls[c].pc = "awaitInfo"
  /\ Apply(supplierFailed(S, c))

TransportConnects(t) ==
  /\ ~crashed
  /\ transports[t].st = "connecting"
  /\ ~transports[t].ended
  /\ Apply(onTransportConnect(S, t))

TransportErrors(t) ==
  /\ ~crashed
  /\ transports[t].st \in {"connecting", "open"}
  /\ Apply(onTransportError(S, t))

TransportCloses(t) ==
  /\ ~crashed
  /\ \/ transports[t].st \in {"connecting", "open"}
     \/ transports[t].closeDue
  /\ Apply(onTransportClose(S, t))

\* end() on a transport that had already closed emits no second 'close'
TransportCloseDropped(t) ==
  /\ ~crashed
  /\ transports[t].st = "closed"
  /\ transports[t].closeDue
  /\ Apply([S EXCEPT !.transports[t].closeDue = FALSE])

TransportMessage(t, kind, d, payload) ==
  /\ ~crashed
  /\ transports[t].st = "open"
  /\ ~transports[t].ended
  /\ Apply(handleMessage(S, kind, d, payload))

\* ---------------------------------------------------------------- time

CoolDownLeft ==
  IF breaker.state = "open" /\ breaker.openFor < halfOpenAfter
  THEN {halfOpenAfter - breaker.openFor} ELSE {}

ArmedDelays ==
  ({reconnectTimer}
     \cup {calls[c].hs : c \in CallIds}
     \cup {tm.rem : tm \in closeTimers}
     \cup {reqTimer[r] : r \in ReqIds}
     \cup CoolDownLeft) \ {NoTimer}

Tick(x, d) == IF x = NoTimer THEN NoTimer ELSE x - d

\* the clock moves to the next deadline; a due timer runs before time passes
Advance ==
  /\ ~crashed
  /\ ArmedDelays # {}
  /\ LET d == CHOOSE x \in ArmedDelays : \A y \in ArmedDelays : x <= y
     IN /\ d > 0
        /\ Apply([S EXCEPT !.reconnectTimer = Tick(@, d),
                           !.calls = [c \in CallIds |-> [@[c] EXCEPT !.hs = Tick(@, d)]],
                           !.closeTimers = {[tm EXCEPT !.rem = @ - d] : tm \in @},
                           !.reqTimer = [r \in ReqIds |-> Tick(@[r], d)],
                           !.breaker.openFor = IF breaker.state = "open"
                                               THEN Min(@ + d, halfOpenAfter) ELSE @])

Next ==
  \/ Do_connect
  \/ Do_disconnect
  \/ \E d \in Devices : Do_subscribeDevice(d)
  \/ \E d \in Devices : Do_unsubscribeDevice(d)
  \/ \E d \in Devices : Do_getDeviceState(d)
  \/ \E d \in Devices : Do_updateDeviceState(d)
  \/ ReconnectTimerFires
  \/ CredentialsRefreshFires
  \/ \E c \in CallIds : ConnectTimeoutFires(c)
  \/ \E tm \in closeTimers : CloseWaitFires(tm)
  \/ \E r \in ReqIds : RequestTimeoutFires(r)
  \/ \E c \in CallIds, d \in Devices : SupplierResolves(c, d)
  \/ \E c \in CallIds : SupplierFails(c)
  \/ \E t \in TIds : TransportConnects(t)
  \/ \E t \in TIds : TransportErrors(t)
  \/ \E t \in TIds : TransportCloses(t)
  \/ \E t \in TIds : TransportCloseDropped(t)
  \/ \E t \in TIds, kind \in MsgKinds, d \in Devices, payload \in Payloads :
        TransportMessage(t, kind, d, payload)
  \/ Advance

Spec == Init /\ [][Next]_vars

\* ------------------------------------------------- bounded specifications
\* The same program explored within a budget of caller operations, transports,
\* failures, requests and overlapping connect() invocations, on the devices devs.

CallsInFlight == Cardinality({c \in CallIds : calls[c].pc # "idle"})

Budget(ops, opened, failures, attempts, requests, devs, inflight) ==
  /\ hist.ops <= ops
  /\ CallsInFlight <= inflight
  /\ hist.opened <= opened
  /\ breaker.failures <= failures
  /\ reconnectAttempts <= attempts
  /\ nextReq <= requests
  /\ subscribedDevices \subseteq devs
  /\ authorizedDeviceId \in devs \cup {Null}
  /\ \A r \in ReqIds : reqKey[r] = NoKey \/ reqKey[r][2] \in devs

\* the devices of the bounded specifications
Scope == {"d1"}

\* connect() invocations in flight at once where one attempt at a time is studied
SerialCalls == 1

\* outage and circuit breaker: a session that connects once and then fails to
\* reconnect through the whole failure chain, within one credential period
BreakerOps == 3
BreakerOpened == 1
BreakerBudget ==
  Budget(BreakerOps, BreakerOpened, MaxFailures, MaxReconnectAttempts, 0, Scope, SerialCalls)
BreakerNext ==
  \/ Do_connect /\ BreakerBudget'
  \/ \E d \in Scope : Do_subscribeDevice(d) /\ BreakerBudget'
  \/ ReconnectTimerFires /\ BreakerBudget'
  \/ \E c \in CallIds : ConnectTimeoutFires(c) /\ BreakerBudget'
  \/ \E tm \in closeTimers : CloseWaitFires(tm) /\ BreakerBudget'
  \/ \E c \in CallIds, d \in Scope : SupplierResolves(c, d) /\ BreakerBudget'
  \/ \E c \in CallIds : SupplierFails(c) /\ BreakerBudget'
  \/ \E t \in TIds : TransportConnects(t) /\ BreakerBudget'
  \/ \E t \in TIds : TransportCloses(t) /\ BreakerBudget'
  \/ Advance /\ BreakerBudget'
BreakerSpec == Init /\ [][BreakerNext]_vars

\* a long outage: as above, one connect() by the caller, and the credential
\* rotation falling into the outage
OutageOps == 2
OutageBudget ==
  Budget(OutageOps, BreakerOpened, MaxFailures, MaxReconnectAttempts, 0, Scope, SerialCalls)
OutageNext ==
  \/ Do_connect /\ OutageBudget'
  \/ \E d \in Scope : Do_subscribeDevice(d) /\ OutageBudget'
  \/ ReconnectTimerFires /\ OutageBudget'
  \/ CredentialsRefreshFires /\ OutageBudget'
  \/ \E c \in CallIds : ConnectTimeoutFires(c) /\ OutageBudget'
  \/ \E tm \in closeTimers : CloseWaitFires(tm) /\ OutageBudget'
  \/ \E c \in CallIds, d \in Scope : SupplierResolves(c, d) /\ OutageBudget'
  \/ \E c \in CallIds : SupplierFails(c) /\ OutageBudget'
  \/ \E t \in TIds : TransportConnects(t) /\ OutageBudget'
  \/ \E t \in TIds : TransportCloses(t) /\ OutageBudget'
  \/ Advance /\ OutageBudget'
OutageSpec == Init /\ [][OutageNext]_vars

\* connection life cycle: several transports, a short failure chain
SessionOps == 2
SessionOpened == 2
SessionFailures == 2
SessionBudget ==
  Budget(SessionOps, SessionOpened, SessionFailures, SessionFailures + 1, 0, Scope, SerialCalls)
SessionNext ==
  \/ Do_connect /\ SessionBudget'
  \/ Do_disconnect /\ SessionBudget'
  \/ \E d \in Scope : Do_subscribeDevice(d) /\ SessionBudget'
  \/ \E d \in Scope : Do_unsubscribeDevice(d) /\ SessionBudget'
  \/ ReconnectTimerFires /\ SessionBudget'
  \/ CredentialsRefreshFires /\ SessionBudget'
  \/ \E c \in CallIds : ConnectTimeoutFires(c) /\ SessionBudget'
  \/ \E tm \in closeTimers : CloseWaitFires(tm) /\ SessionBudget'
  \/ \E c \in CallIds, d \in Scope : SupplierResolves(c, d) /\ SessionBudget'
  \/ \E c \in CallIds : SupplierFails(c) /\ SessionBudget'
  \/ \E t \in TIds : TransportConnects(t) /\ SessionBudget'
  \/ \E t \in TIds : TransportErrors(t) /\ SessionBudget'
  \/ \E t \in TIds : TransportCloses(t) /\ SessionBudget'
  \/ \E t \in TIds : TransportCloseDropped(t) /\ SessionBudget'
  \/ Advance /\ SessionBudget'
SessionSpec == Init /\ [][SessionNext]_vars

\* request correlation: requests, responses and deadlines on one session
RequestOps == 4
RequestOpened == 1
RequestBudget == Budget(RequestOps, RequestOpened, 0, 0, MaxRequests, Scope, SerialCalls)
RequestNext ==
  \/ Do_connect /\ RequestBudget'
  \/ Do_disconnect /\ RequestBudget'
  \/ \E d \in Scope : Do_getDeviceState(d) /\ RequestBudget'
  \/ \E d \in Scope : Do_updateDeviceState(d) /\ RequestBudget'
  \/ \E r \in ReqIds : RequestTimeoutFires(r) /\ RequestBudget'
  \/ \E c \in CallIds, d \in Scope : SupplierResolves(c, d) /\ RequestBudget'
  \/ \E t \in TIds : TransportConnects(t) /\ RequestBudget'
  \/ \E t \in TIds : TransportCloses(t) /\ RequestBudget'
  \/ \E t \in TIds, kind \in MsgKinds, d \in Scope, payload \in Payloads :
        TransportMessage(t, kind, d, payload) /\ RequestBudget'
  \/ Advance /\ RequestBudget'
RequestSpec == Init /\ [][RequestNext]_vars

\* device subscriptions: two devices, credentials for either, rotation
SubscriptionOps == 3
SubscriptionOpened == 2
SubscriptionBudget ==
  Budget(SubscriptionOps, SubscriptionOpened, 0, 1, 0, Devices, SerialCalls)
SubscriptionNext ==
  \/ Do_connect /\ SubscriptionBudget'
  \/ \E d \in Devices : Do_subscribeDevice(d) /\ SubscriptionBudget'
  \/ \E d \in Devices : Do_unsubscribeDevice(d) /\ SubscriptionBudget'
  \/ ReconnectTimerFires /\ SubscriptionBudget'
  \/ CredentialsRefreshFires /\ SubscriptionBudget'
  \/ \E tm \in closeTimers : CloseWaitFires(tm) /\ SubscriptionBudget'
  \/ \E c \in CallIds, d \in Devices : SupplierResolves(c, d) /\ SubscriptionBudget'
  \/ \E t \in TIds : TransportConnects(t) /\ SubscriptionBudget'
  \/ \E t \in TIds : TransportCloses(t) /\ SubscriptionBudget'
  \/ Advance /\ SubscriptionBudget'
SubscriptionSpec == Init /\ [][SubscriptionNext]_vars

\* overlapping connects: the reconnect timer and the rotation timer are armed
\* independently of each other and of the caller's connect()
OverlapOps == 2
OverlapBudget == Budget(OverlapOps, MaxTransports, 0, 1, 0, Devices, MaxCalls)
OverlapNext ==
  \/ Do_connect /\ OverlapBudget'
  \/ \E d \in Devices : Do_subscribeDevice(d) /\ OverlapBudget'
  \/ ReconnectTimerFires /\ OverlapBudget'
  \/ CredentialsRefreshFires /\ OverlapBudget'
  \/ \E tm \in closeTimers : CloseWaitFires(tm) /\ OverlapBudget'
  \/ \E c \in CallIds, d \in Devices : SupplierResolves(c, d) /\ OverlapBudget'
  \/ \E t \in TIds : TransportConnects(t) /\ OverlapBudget'
  \/ \E t \in TIds : TransportCloses(t) /\ OverlapBudget'
  \/ \E t \in TIds : TransportCloseDropped(t) /\ OverlapBudget'
  \/ Advance /\ OverlapBudget'
OverlapSpec == Init /\ [][OverlapNext]_vars

\* automatic recovery within one credential period: unexpected closes, failing
\* and succeeding reconnects
RetryOps == 2
RetryOpened == 2
RetryFailures == 2
RetryBudget ==
  Budget(RetryOps, RetryOpened, RetryFailures, RetryFailures + 1, 0, Scope, SerialCalls)
RetryNext ==
  \/ Do_connect /\ RetryBudget'
  \/ \E d \in Scope : Do_subscribeDevice(d) /\ RetryBudget'
  \/ ReconnectTimerFires /\ RetryBudget'
  \/ \E c \in CallIds : ConnectTimeoutFires(c) /\ RetryBudget'
  \/ \E tm \in closeTimers : CloseWaitFires(tm) /\ RetryBudget'
  \/ \E c \in CallIds, d \in Scope : SupplierResolves(c, d) /\ RetryBudget'
  \/ \E c \in CallIds : SupplierFails(c) /\ RetryBudget'
  \/ \E t \in TIds : TransportConnects(t) /\ RetryBudget'
  \/ \E t \in TIds : TransportCloses(t) /\ RetryBudget'
  \/ \E t \in TIds : TransportCloseDropped(t) /\ RetryBudget'
  \/ Advance /\ RetryBudget'
RetrySpec == Init /\ [][RetryNext]_vars

\* backoff: one connect() by the caller, then the whole chain of reconnects
BackoffOps == 2
BackoffOpened == 2
BackoffBudget ==
  Budget(BackoffOps, BackoffOpened, MaxFailures, MaxReconnectAttempts, 0, Scope,
         SerialCalls)
BackoffNext ==
  \/ Do_connect /\ BackoffBudget'
  \/ \E d \in Scope : Do_subscribeDevice(d) /\ BackoffBudget'
  \/ ReconnectTimerFires /\ BackoffBudget'
  \/ \E tm \in closeTimers : CloseWaitFires(tm) /\ BackoffBudget'
  \/ \E c \in CallIds, d \in Scope : SupplierResolves(c, d) /\ BackoffBudget'
  \/ \E c \in CallIds : SupplierFails(c) /\ BackoffBudget'
  \/ \E t \in TIds : TransportConnects(t) /\ BackoffBudget'
  \/ \E t \in TIds : TransportCloses(t) /\ BackoffBudget'
  \/ \E t \in TIds : TransportCloseDropped(t) /\ BackoffBudget'
  \/ Advance /\ BackoffBudget'
BackoffSpec == Init /\ [][BackoffNext]_vars

\* responses and pushes of the shadow service for two devices on one connected
\* session that has requests of one of them in flight
MessageOps == 3
MessageOpened == 1
MessageBudget == Budget(MessageOps, MessageOpened, 0, 0, MaxRequests, Scope, SerialCalls)
MessageNext ==
  \/ Do_connect /\ MessageBudget'
  \/ \E d \in Scope : Do_getDeviceState(d) /\ MessageBudget'
  \/ \E d \in Scope : Do_updateDeviceState(d) /\ MessageBudget'
  \/ \E r \in ReqIds : RequestTimeoutFires(r) /\ MessageBudget'
  \/ \E c \in CallIds, d \in Scope : SupplierResolves(c, d) /\ MessageBudget'
  \/ \E t \in TIds : TransportConnects(t) /\ MessageBudget'
  \/ \E t \in TIds, kind \in MsgKinds, d \in Devices, payload \in Payloads :
        TransportMessage(t, kind, d, payload) /\ MessageBudget'
  \/ Advance /\ MessageBudget'
MessageSpec == Init /\ [][MessageNext]_vars

\* requests on a session whose timers all run: every timer callback of the session
\* is in the specification and runs once it is due (the event loop runs a due
\* callback), and the clock goes on; messages, closes and the caller are free
SettleOps == 2
SettleOpened == 1
SettleBudget ==
  Budget(SettleOps, SettleOpened, MaxFailures, MaxReconnectAttempts, MaxRequests, Scope,
         SerialCalls)
SettleNext ==
  \/ Do_connect /\ SettleBudget'
  \/ Do_disconnect /\ SettleBudget'
  \/ \E d \in Scope : Do_getDeviceState(d) /\ SettleBudget'
  \/ \E d \in Scope : Do_updateDeviceState(d) /\ SettleBudget'
  \/ \E r \in ReqIds : RequestTimeoutFires(r) /\ SettleBudget'
  \/ \E c \in CallIds : ConnectTimeoutFires(c) /\ SettleBudget'
  \/ \E tm \in closeTimers : CloseWaitFires(tm) /\ SettleBudget'
  \/ \E c \in CallIds, d \in Scope : SupplierResolves(c, d) /\ SettleBudget'
  \/ \E t \in TIds : TransportConnects(t) /\ SettleBudget'
  \/ \E t \in TIds : TransportCloses(t) /\ SettleBudget'
  \/ \E t \in TIds, kind \in MsgKinds, d \in Scope, payload \in Payloads :
        TransportMessage(t, kind, d, payload) /\ SettleBudget'
  \/ Advance /\ SettleBudget'
SettleSpec ==
  /\ Init
  /\ [][SettleNext]_vars
  /\ WF_vars(Advance /\ SettleBudget')
  /\ WF_vars(\E r \in ReqIds : RequestTimeoutFires(r) /\ SettleBudget')
  /\ WF_vars(\E c \in CallIds : ConnectTimeoutFires(c) /\ SettleBudget')
  /\ WF_vars(\E tm \in closeTimers : CloseWaitFires(tm) /\ SettleBudget')

\* ------------------------------------------------------ parser inputs

\* keys in a reported document of the bounded inputs
MaxRawKeys == 2

\* the raw keys the two parsers read, and one they do not
RawFields ==
  {"D03102", "powerOn", "pwr", "connected", "productState", "productError", "D0310C",
   "mode", "om", "fanSpeed", "D03221", "pm25", "D03125", "rh", "humidity", "D03224",
   "temp", "temperature", "D03120", "iaql", "airQualityIndex", "rhset", "targetHumidity",
   "wl", "waterLevel", "D0312B", "cl", "childLock", "D0310D", "uil", "displayLight",
   "ncpFirmwareVersion", "hostFirmwareVersion", "timezones", "D0540E", "D05408",
   "fltsts0", "fltsts1", "fltt0", "fltt1", "D03128", "D03103", "D03105", "rssi"}

V3Fields ==
  {"D03102", "connected", "productState", "productError", "D0310C", "D03221", "D03125",
   "D03224", "D03120", "D03128", "D03103", "D03105", "ncpFirmwareVersion",
   "hostFirmwareVersion", "timezones", "D0540E", "D05408"}

\* the values a reported document gives to a key
RawValues(k) ==
  CASE k \in {"D03102", "D0312B", "D03103"} -> {Num(0), Num(1)}
    [] k \in {"powerOn", "connected", "childLock"} -> {Bool(TRUE), Bool(FALSE)}
    [] k \in {"pwr", "cl"} -> {Str("1"), Str("0")}
    [] k = "D0310C" -> {Num(0), Num(2), Num(16), Num(17), Num(18), Num(19), Str("17")}
    [] k = "mode" -> {Str("A"), Str("X")}
    [] k \in {"D03221", "pm25"} -> {Num(5), Str("x")}
    [] k = "D03224" -> {Num(215), Num(214)}
    [] k = "timezones" -> {Obj([iana |-> Str("Europe/Warsaw")]), Obj([posix |-> Str("CET")])}
    [] k \in {"productState", "productError", "ncpFirmwareVersion",
              "hostFirmwareVersion"} -> {Str("x")}
    [] k \in {"D0540E", "fltsts0", "fltsts1"} -> {Num(50)}
    [] k \in {"D05408", "fltt0", "fltt1"} -> {Num(200), Num(0)}
    [] OTHER -> {Str("50")}

\* the documents of at most n keys over the fields
RECURSIVE Documents(_, _)
Documents(fields, n) ==
  IF n = 0 THEN {EmptyObject}
  ELSE LET smaller == Documents(fields, n - 1)
       IN smaller \cup UNION {{Put(d, k, x) : x \in RawValues(k)} :
                                d \in smaller, k \in fields}

\* the scenario documents of the specification
Scenarios ==
  {[D03102 |-> Num(1), D0310C |-> Num(17), D03221 |-> Num(5)],
   [D03102 |-> Num(1), D0310C |-> Num(2), D0312B |-> Num(1), D0310D |-> Num(2),
    rhset |-> Str("50")],
   [D03102 |-> Num(0), D0310C |-> Num(2), D03128 |-> Num(50), D03103 |-> Num(1),
    D03105 |-> Num(50)]}

\* what a command says about one attribute: `absent` stands for a missing key
CommandValues(k) ==
  CASE k = "power" -> {Bool(TRUE), Bool(FALSE), undefined}
    [] k = "mode" -> {Str("auto"), Str("sleep"), Str("turbo"), Str("manual"), Str("AUTO"),
                      Str("mode_19"), undefined}
    [] k = "fanSpeed" -> {Num(0), Num(2), Num(5), Num(19), Str("2")}
    [] k = "targetHumidity" -> {Num(50)}
    [] k = "childLock" -> {Bool(TRUE), Bool(FALSE)}
    [] k = "displayLight" -> {Num(2)}
    [] OTHER -> {Num(5)}

CommandFields == {"power", "mode", "fanSpeed", "targetHumidity", "childLock",
                  "displayLight", "pm25"}

\* statuses to merge: what is stored, and what an update brings
StatusFields == {"power", "pm25", "raw", "filter"}

ExistingValues(k) ==
  CASE k = "power" -> {Bool(TRUE)}
    [] k = "pm25" -> {Num(5)}
    [] k = "raw" -> {Obj([D03102 |-> Num(1), D03221 |-> Num(5)])}
    [] k = "filter" -> {Obj([replaceRemaining |-> Num(50), replaceNominal |-> Num(200)])}
    [] OTHER -> {Num(1)}

UpdateValues(k) ==
  CASE k = "power" -> {Bool(FALSE), undefined}
    [] k = "pm25" -> {Num(12), undefined}
    [] k = "raw" -> {Obj([D03221 |-> Num(12), D03125 |-> Num(50)]), undefined}
    [] k = "filter" -> {Obj([replaceRemaining |-> Num(5), cleanRemaining |-> Num(5)]),
                        undefined}
    [] OTHER -> {Num(2)}

\* every object that gives some of the fields one of the values of its kind
RECURSIVE ObjectsOver(_, _)
ObjectsOver(fields, kind) ==
  IF fields = {} THEN {EmptyObject}
  ELSE LET k == CHOOSE f \in fields : TRUE
           rest == ObjectsOver(fields \ {k}, kind)
           values == CASE kind = "command" -> CommandValues(k)
                       [] kind = "existing" -> ExistingValues(k)
                       [] OTHER -> UpdateValues(k)
       IN rest \cup UNION {{Put(o, k, x) : x \in values} : o \in rest}

Commands == ObjectsOver(CommandFields, "command")

Existings == ObjectsOver(StatusFields \cup {"timestamp"}, "existing")

Updates == ObjectsOver(StatusFields, "update")

\* Date.now() of the merge
Now == Num(2)

ParserInit ==
  /\ SessionInit
  /\ node = NoNode
  /\ \/ \E r \in Documents(RawFields, MaxRawKeys) \cup Scenarios :
          parser = [NoCall EXCEPT !.fn = "parseReportedState", !.reported = r]
     \/ \E r \in Documents(V3Fields, MaxRawKeys) \cup Scenarios :
          parser = [NoCall EXCEPT !.fn = "v3_parseReportedState", !.reported = r]
     \/ \E o \in Commands, f \in {"buildDesiredState", "v3_buildDesiredState"} :
          parser = [NoCall EXCEPT !.fn = f, !.options = o]
     \/ \E e \in Existings, u \in Updates :
          parser = [NoCall EXCEPT !.fn = "mergeStatus", !.existing = e, !.update = u]

Call_parseReportedState ==
  /\ parser.fn = "parseReportedState" /\ ~parser.returned
  /\ parser' = [parser EXCEPT !.returned = TRUE,
                              !.status = parseReportedState(parser.reported)]
  /\ UNCHANGED <<sessionVars, node>>

Call_buildDesiredState ==
  /\ parser.fn = "buildDesiredState" /\ ~parser.returned
  /\ parser' = [parser EXCEPT !.returned = TRUE,
                              !.desired = buildDesiredState(parser.options)]
  /\ UNCHANGED <<sessionVars, node>>

\* the parsed status handed back as a command
Call_roundTrip ==
  /\ parser.fn = "parseReportedState" /\ parser.returned
  /\ parser' = [parser EXCEPT !.fn = "roundTrip", !.options = parser.status,
                              !.desired = buildDesiredState(parser.status)]
  /\ UNCHANGED <<sessionVars, node>>

Call_mergeStatus ==
  /\ parser.fn = "mergeStatus" /\ ~parser.returned
  /\ parser' = [parser EXCEPT !.returned = TRUE,
                              !.merged = mergeStatus(parser.existing, parser.update, Now)]
  /\ UNCHANGED <<sessionVars, node>>

Call_v3_parseReportedState ==
  /\ parser.fn = "v3_parseReportedState" /\ ~parser.returned
  /\ parser' = [parser EXCEPT !.returned = TRUE,
                              !.status = v3_parseReportedState(parser.reported)]
  /\ UNCHANGED <<sessionVars, node>>

Call_v3_buildDesiredState ==
  /\ parser.fn = "v3_buildDesiredState" /\ ~parser.returned
  /\ parser' = [parser EXCEPT !.returned = TRUE,
                              !.desired = v3_buildDesiredState(parser.options)]
  /\ UNCHANGED <<sessionVars, node>>

Call_v3_roundTrip ==
  /\ parser.fn = "v3_parseReportedState" /\ parser.returned
  /\ parser' = [parser EXCEPT !.fn = "v3_roundTrip", !.options = parser.status,
                              !.desired = v3_buildDesiredState(parser.status)]
  /\ UNCHANGED <<sessionVars, node>>

ParserNext ==
  \/ Call_parseReportedState
  \/ Call_buildDesiredState
  \/ Call_roundTrip
  \/ Call_mergeStatus
  \/ Call_v3_parseReportedState
  \/ Call_v3_buildDesiredState
  \/ Call_v3_roundTrip
ParserSpec == ParserInit /\ [][ParserNext]_vars

\* ------------------------------------------------------------ account node
\* nodes/account.js keeps, per device, the merged status and the observers of the
\* status nodes; the session's onStateChange observer is its handleStateChange.

Observers == {"o1", "o2"}

\* initial-state timers armed at once for one device
MaxInitialTimers == 2

\* state objects a shadow message carries
NodeDocs == {[D03102 |-> Num(1)], [D03221 |-> Num(5)]}

\* the messages that reach the observer
NodeKinds == {"get/accepted", "update/delta"}

\* Map.delete
Remove(o, k) == [f \in DOMAIN o \ {k} |-> o[f]]

\* updateStatus() of an authenticated node that has an MQTT client
updateStatus(s) ==
  Emit(s, "node.status", IF s.connected THEN "connected" ELSE "connecting...")

\* the callbacks of a device, each called with the merged status
RECURSIVE callEach(_, _)
callEach(s, os) ==
  IF os = {} THEN s
  ELSE LET o == IF "o1" \in os THEN "o1" ELSE CHOOSE x \in os : TRUE
       IN callEach(Emit(s, "callback", o), os \ {o})

\* handleStateChange keeps the status whether or not anybody observes the device
handleStateChange(s, d, state, type) ==
  LET reported == IF type = "reported" THEN parseReportedState(state) ELSE state
      existing == IF Has(s.node.deviceStatus, d) THEN s.node.deviceStatus[d]
                  ELSE EmptyObject
      updated == mergeStatus(existing, reported, Now)
      s1 == [s EXCEPT !.node.deviceStatus = Put(@, d, updated)]
  IN IF Has(s1.node.statusCallbacks, d) THEN callEach(s1, s1.node.statusCallbacks[d])
     ELSE s1

\* a node.unsubscribe that drops the status with the last observer
node_unsubscribe_discard(s, d, callback) ==
  IF Has(s.node.statusCallbacks, d)
  THEN LET left == s.node.statusCallbacks[d] \ {callback}
       IN IF left = {}
          THEN updateStatus(unsubscribeDevice(
                 [s EXCEPT !.node.statusCallbacks = Remove(@, d),
                           !.node.deviceStatus = Remove(@, d)], d))
          ELSE updateStatus([s EXCEPT !.node.statusCallbacks[d] = left])
  ELSE updateStatus(s)

node_subscribe(s, d, callback) ==
  LET had == IF Has(s.node.statusCallbacks, d) THEN s.node.statusCallbacks[d] ELSE {}
      s1 == [s EXCEPT !.node.statusCallbacks = Put(@, d, had \cup {callback})]
      s2 == IF s1.connected
            THEN LET s2a == subscribeDevice(s1, d)
                 IN IF Has(s2a.node.deviceStatus, d) THEN s2a
                    ELSE IF s2a.node.initialState[d] >= MaxInitialTimers
                    THEN [s2a EXCEPT !.ovf = TRUE]
                    ELSE [s2a EXCEPT !.node.initialState[d] = @ + 1]
            ELSE s1
      s3 == updateStatus(s2)
  IN [s3 EXCEPT !.node.returned = IF Has(s3.node.deviceStatus, d)
                                  THEN Obj(s3.node.deviceStatus[d]) ELSE null]

node_unsubscribe(s, d, callback) ==
  IF Has(s.node.statusCallbacks, d)
  THEN LET left == s.node.statusCallbacks[d] \ {callback}
       IN IF left = {}
          THEN updateStatus(unsubscribeDevice(
                 [s EXCEPT !.node.statusCallbacks = Remove(@, d)], d))
          ELSE updateStatus([s EXCEPT !.node.statusCallbacks[d] = left])
  ELSE updateStatus(s)

\* the 1 s timer of node.subscribe: the initial state is requested if still missing
initialStateTimer(s, d) ==
  LET s1 == [s EXCEPT !.node.initialState[d] = @ - 1]
  IN IF s1.connected /\ ~Has(s1.node.deviceStatus, d)
     THEN getDeviceState(s1, d, DefaultTimeoutMs) ELSE s1

\* a message handled by the session, its state change passed on to the node
deliver(s, d, state) ==
  LET changes == {i \in DOMAIN s.out : s.out[i][1] = "onStateChange"}
  IN IF changes = {} THEN s
     ELSE handleStateChange(s, d, state, s.out[CHOOSE i \in changes : TRUE][2])

Node_subscribe(d, callback) ==
  /\ ~crashed
  /\ Apply(node_subscribe(S, d, callback))

Node_unsubscribe(d, callback) ==
  /\ ~crashed
  /\ Apply(node_unsubscribe(S, d, callback))

Node_initialStateTimer(d) ==
  /\ ~crashed
  /\ node.initialState[d] > 0
  /\ Apply(initialStateTimer(S, d))

Node_message(t, kind, d, payload, state) ==
  /\ ~crashed
  /\ transports[t].st = "open"
  /\ ~transports[t].ended
  /\ Apply(deliver(handleMessage(S, kind, d, payload), d, state))

\* one session, its device observed by the status nodes
NodeOps == 1
NodeOpened == 1
NodeBudget ==
  Budget(NodeOps, NodeOpened, 0, MaxReconnectAttempts, MaxRequests, Scope, SerialCalls)
NodeNext ==
  \/ Do_connect /\ NodeBudget'
  \/ \E c \in CallIds, d \in Scope : SupplierResolves(c, d) /\ NodeBudget'
  \/ \E t \in TIds : TransportConnects(t) /\ NodeBudget'
  \/ \E t \in TIds : TransportCloses(t) /\ NodeBudget'
  \/ \E d \in Scope, o \in Observers : Node_subscribe(d, o) /\ NodeBudget'
  \/ \E d \in Scope, o \in Observers : Node_unsubscribe(d, o) /\ NodeBudget'
  \/ \E d \in Scope : Node_initialStateTimer(d) /\ NodeBudget'
  \/ \E t \in TIds, kind \in NodeKinds, d \in Scope, state \in NodeDocs :
        Node_message(t, kind, d, "document", state) /\ NodeBudget'
  \/ \E r \in ReqIds : RequestTimeoutFires(r) /\ NodeBudget'
  \/ Advance /\ NodeBudget'
NodeSpec == Init /\ [][NodeNext]_vars

\* ------------------------------------------------------------ properties

IsSettle(e) == e[1] = "settle"
Settles(o) == SelectSeq(o, IsSettle)
Issued == 1..nextReq
Pending == {pendingRequests[k] : k \in Keys} \ {0}
Disconnected == ~connected

InFlight == \E c \in CallIds : calls[c].pc # "idle"
EventsPending ==
  \/ \E t \in TIds : transports[t].st \in {"connecting", "open"} \/ transports[t].closeDue
  \/ closeTimers # {}
Requested == subscribedDevices # {}
ConnectStep == Do_connect \/ ReconnectTimerFires \/ CredentialsRefreshFires
Refused == \E i \in DOMAIN out' : out'[i][2] = "BrokenCircuitError"
NoAttempt == calls' = calls /\ hist.opened' = hist.opened /\ client' = client

\* C1: a session that was Connected, whose devices stayed requested and on which
\* disconnect() was not called, is never left Disconnected with nothing that would
\* bring it back: unless it stopped on an uncaught exception, a reconnect or a
\* rotation is scheduled, a connect is in flight, or a transport event is still due.
C1_RecoveryPending ==
  hist.held /\ ~hist.down /\ ~connected /\ ~crashed =>
    \/ reconnectTimer # NoTimer
    \/ credentialsRefreshTimer # NoTimer
    \/ InFlight
    \/ EventsPending

\* C2 as stated: once 10 consecutive connect attempts have failed, a connect() is
\* refused with the circuit-open error, calls no supplier and opens no transport.
C2_AfterTenFailuresRefused ==
  [][ConnectStep /\ breaker.failures >= BreakerThreshold => Refused /\ NoAttempt]_vars

\* C2: while the breaker is open and its 5-minute cool-down has not elapsed, a
\* connect() (the caller's or the reconnect timer's) is refused with the
\* circuit-open error, calls no supplier and opens no transport.
C2_OpenRefusesDuringCoolDown ==
  [][ConnectStep /\ breaker.state = "open" /\ breaker.openFor < halfOpenAfter =>
       Refused /\ NoAttempt]_vars

\* the caller's connect() was refused while the breaker was 10 failures into an outage
C2_Witness ==
  /\ out = << <<"connect.result", "BrokenCircuitError">> >>
  /\ breaker.state = "open"
  /\ breaker.failures = BreakerThreshold
  /\ breaker.openFor < halfOpenAfter

\* C3: when the cool-down of the open breaker has elapsed and a device is requested,
\* the one automatic attempt is there: a reconnect is scheduled or a connect is in
\* flight.
C3_AttemptAfterCoolDown ==
  breaker.state = "open" /\ breaker.openFor = halfOpenAfter /\ Requested /\ ~crashed
    => reconnectTimer # NoTimer \/ InFlight

\* C4: the close of the connected transport that the session did not end leaves the
\* session Disconnected and, if a device is requested, a reconnect scheduled.
C4_CloseSchedulesReconnect ==
  [][\A t \in TIds :
       /\ TransportCloses(t)
       /\ client = t /\ connected /\ transports[t].st = "open" /\ ~transports[t].ended
       /\ Requested
       => ~connected' /\ reconnectTimer' # NoTimer]_vars

\* C5: from disconnect() until the caller's next connect(), no reconnect is
\* scheduled and no transport is opened.
C5_NoReconnectAfterDisconnect ==
  [][hist.down /\ hist.down' =>
       reconnectTimer' = NoTimer /\ hist.opened' = hist.opened]_vars

\* C6: disconnect() called while N requests are pending rejects each of them
\* with the disconnect error before it returns (nothing else is settled by the
\* call) and leaves the pending-request table empty, with no deadline armed.
C6_DisconnectRejectsAll ==
  [][Do_disconnect =>
       /\ \A r \in ReqIds :
            settled'[r] = IF r \in Pending THEN Append(settled[r], "Disconnected")
                          ELSE settled[r]
       /\ Len(Settles(out')) = Cardinality(Pending)
       /\ \A k \in Keys : pendingRequests'[k] = 0
       /\ \A r \in ReqIds : reqTimer'[r] = NoTimer]_vars

\* two requests were pending and the one disconnect() rejected both
C6_Witness ==
  /\ Settles(out) = << <<"settle", "Disconnected">>, <<"settle", "Disconnected">> >>
  /\ settled[1] = <<"Disconnected">>
  /\ settled[2] = <<"Disconnected">>
  /\ reqKey[1][1] # reqKey[2][1]

\* C7: every issued request is settled at most once, by one cause; it is in the
\* pending table with its deadline armed exactly while it is unsettled, so the
\* deadline settles it if nothing else does; a request not yet issued is unsettled.
C7_SettlesOnce ==
  \A r \in ReqIds :
    /\ Len(settled[r]) <= 1
    /\ r \in Issued => /\ settled[r] = <<>> <=> pendingRequests[reqKey[r]] = r
                       /\ settled[r] = <<>> <=> reqTimer[r] # NoTimer
    /\ r \notin Issued => settled[r] = <<>> /\ reqTimer[r] = NoTimer /\ r \notin Pending

\* one request was superseded and its successor ran into its deadline
C7_Witness ==
  /\ settled[1] = <<"Superseded">>
  /\ settled[2] = <<"Request timeout">>

\* C8: a request issued for a key whose earlier request is still pending rejects
\* the earlier one as superseded first, then creates the new entry, then publishes;
\* the new request is unsettled and is the entry of that key; other keys keep theirs.
C8_Supersede ==
  [][\A d \in Devices, op \in Ops :
       LET key == <<op, d>>
           old == pendingRequests[key]
           step == IF op = "get" THEN Do_getDeviceState(d) ELSE Do_updateDeviceState(d)
       IN connected /\ client # 0 /\ old # 0 /\ step =>
            /\ out' = << <<"settle", "Superseded">>, <<"set", op>>, <<"publish", op>> >>
            /\ settled[old] = <<>> /\ settled'[old] = <<"Superseded">>
            /\ reqTimer'[old] = NoTimer
            /\ pendingRequests'[key] = nextReq' /\ nextReq' = nextReq + 1
            /\ settled'[nextReq'] = <<>>
            /\ \A k \in Keys \ {key} : pendingRequests'[k] = pendingRequests[k]]_vars

\* the second update for d1 has just superseded the first
C8_Witness ==
  /\ out = << <<"settle", "Superseded">>, <<"set", "update">>, <<"publish", "update">> >>
  /\ reqKey[1] = <<"update", "d1">>
  /\ pendingRequests[<<"update", "d1">>] = 2

\* C9: when the deadline of an unanswered request expires the request is rejected
\* with the timeout error and its entry leaves the table; no entry of the table
\* belongs to a settled request, and a request that timed out is never settled
\* again, as superseded or otherwise.
C9_TimeoutRemoves ==
  [][/\ \A r \in ReqIds :
          RequestTimeoutFires(r) =>
            /\ settled[r] = <<>> /\ settled'[r] = <<"Request timeout">>
            /\ \A k \in Keys : pendingRequests'[k] # r
            /\ pendingRequests'[reqKey[r]] = 0
     /\ \A r \in ReqIds :
          settled[r] = <<"Request timeout">> =>
            /\ settled'[r] = settled[r]
            /\ \A k \in Keys : pendingRequests'[k] # r]_vars

\* the same request was issued again after its predecessor timed out, and the
\* call superseded nothing
C9_Witness ==
  /\ settled[1] = <<"Request timeout">>
  /\ reqKey[2] = reqKey[1]
  /\ pendingRequests[reqKey[1]] = 2
  /\ out = << <<"set", reqKey[1][1]>>, <<"publish", reqKey[1][1]>> >>

\* C10: getDeviceState and updateDeviceState called while Disconnected return the
\* not-connected error and nothing else happens: nothing is published, the table,
\* the deadlines, the settled requests and the request counter stay as they were.
C10_NotConnected ==
  [][\A d \in Devices :
       /\ Disconnected /\ Do_getDeviceState(d) =>
            /\ out' = << <<"getDeviceState.result", "Not connected">> >>
            /\ UNCHANGED <<pendingRequests, reqTimer, reqKey, settled, nextReq>>
       /\ Disconnected /\ Do_updateDeviceState(d) =>
            /\ out' = << <<"updateDeviceState.result", "Not connected">> >>
            /\ UNCHANGED <<pendingRequests, reqTimer, reqKey, settled, nextReq>>]_vars

\* a get was refused while a request for the same key was still pending
C10_Witness ==
  /\ out = << <<"getDeviceState.result", "Not connected">> >>
  /\ Disconnected
  /\ pendingRequests[<<"get", "d1">>] # 0

\* C11: the devices whose shadow topics are subscribed on the current transport
\* are requested devices and are the device the current credentials authorize.
C11_WireSubscriptionsAuthorized ==
  client # 0 =>
    transports[client].subs \subseteq (subscribedDevices \cap {authorizedDeviceId})

\* C12: a successful handshake leaves the requested-device set as it was and, if
\* the device named by the credentials of the connecting transport is requested,
\* subscribes that device's shadow topics on that transport.
C12_HandshakeSubscribesAuthorized ==
  [][\A t \in TIds :
       TransportConnects(t) =>
         /\ subscribedDevices' = subscribedDevices
         /\ transports[t].dev \in subscribedDevices =>
              transports[t].dev \in transports'[t].subs]_vars

\* C13: a transport is opened only in the step in which the credential supplier
\* answers a connect attempt that called it and was waiting for it; that step opens
\* exactly one transport, hands it to that attempt and uses the answer up, and the
\* transport carries the credentials of that answer.
C13_FreshCredentialsPerTransport ==
  [][hist.opened' # hist.opened =>
       /\ hist.opened' = hist.opened + 1
       /\ \E c \in CallIds :
            /\ calls[c].pc = "awaitInfo"
            /\ calls'[c].pc = "awaitHandshake" /\ calls'[c].t = hist.opened'
            /\ \A c2 \in CallIds \ {c} : calls'[c2] = calls[c2]
       /\ transports'[hist.opened'].dev = authorizedDeviceId'
       /\ client' = hist.opened']_vars

\* the reconnect timer's attempt has called the supplier again and has opened the
\* second transport with its answer
C13_Witness ==
  /\ hist.opened = 2
  /\ transports[2].st = "connecting"
  /\ \E c \in CallIds :
       calls[c].pc = "awaitHandshake" /\ calls[c].t = 2 /\ calls[c].origin = "timer"

\* C14: a supplier failure in the reconnect timer's connect attempt counts as one
\* more consecutive failure of the breaker, is reported through onError, and leaves
\* a reconnect scheduled.
C14_SupplierFailureRetried ==
  [][\A c \in CallIds :
       SupplierFails(c) /\ calls[c].origin = "timer" =>
         /\ breaker.failures' = breaker.failures + 1
         /\ \E i \in DOMAIN out' : out'[i] = <<"onError", "SupplierError">>
         /\ reconnectTimer' # NoTimer
         /\ calls'[c].pc = "idle"]_vars

\* the supplier failed in the first reconnect: one failure counted, the error
\* reported, the second reconnect scheduled after 2 s
C14_Witness ==
  /\ out = << <<"onError", "SupplierError">> >>
  /\ breaker.failures = 1
  /\ reconnectAttempts = 2
  /\ reconnectTimer = 2 * RECONNECT_BASE_MS
  /\ ~connected /\ ~InFlight

UnexpectedClose(t) ==
  /\ TransportCloses(t)
  /\ client = t /\ connected /\ transports[t].st = "open" /\ ~transports[t].ended
  /\ Requested /\ reconnectTimer = NoTimer

C17_DisconnectCancelsTimers ==
  [][Do_disconnect =>
       /\ reconnectTimer' = NoTimer
       /\ credentialsRefreshTimer' = NoTimer
       /\ \A r \in ReqIds : reqTimer'[r] = NoTimer
       /\ \A c \in CallIds : calls'[c].hs = NoTimer
       /\ closeTimers' = {}]_vars

RejectedTopic(op) == IF op = "get" THEN "get/rejected" ELSE "update/rejected"
RejectedDefault(op) == IF op = "get" THEN "Shadow get rejected" ELSE "Shadow update rejected"

\* C19: a get-rejected (update-rejected) message for device d rejects the pending
\* get (update) of d with the reason the message carries (the operation's default
\* text when it carries none), deletes that entry and clears its deadline; every
\* other entry, deadline and caller is as it was.
C19_RejectedRejectsPending ==
  [][\A t \in TIds, op \in Ops, d \in Devices, payload \in Payloads :
       LET key == <<op, d>>
           r == pendingRequests[key]
           reason == IF payload = "error" THEN ThingNotFound ELSE RejectedDefault(op)
       IN TransportMessage(t, RejectedTopic(op), d, payload) /\ r # 0 =>
            /\ out' = << <<"settle", reason>> >>
            /\ settled' = [settled EXCEPT ![r] = Append(@, reason)]
            /\ pendingRequests' = [pendingRequests EXCEPT ![key] = 0]
            /\ reqTimer' = [reqTimer EXCEPT ![r] = NoTimer]]_vars

\* the get of d1 was rejected with the message's reason while the update of d1
\* still waits
C19_Witness ==
  /\ out = << <<"settle", ThingNotFound>> >>
  /\ \E r \in ReqIds : /\ reqKey[r] = <<"get", "d1">>
                        /\ settled[r] = <<ThingNotFound>>
                        /\ reqTimer[r] = NoTimer
  /\ pendingRequests[<<"get", "d1">>] = 0
  /\ \E r2 \in ReqIds : /\ pendingRequests[<<"update", "d1">>] = r2
                         /\ reqTimer[r2] > 0 /\ settled[r2] = <<>>

ResponseKey(kind, d) ==
  IF kind \in {"get/accepted", "get/rejected"} THEN <<"get", d>> ELSE <<"update", d>>

\* C20: an accepted or rejected response for a key that has no pending entry
\* settles nobody and changes nothing of the session: table, deadlines, timers,
\* connection state, transports and breaker are as they were (a get-accepted
\* document is still passed to the state-change observer).
C20_LateResponseNoOp ==
  [][\A t \in TIds, d \in Devices, payload \in Payloads :
     \A kind \in {"get/accepted", "get/rejected", "update/accepted", "update/rejected"} :
       TransportMessage(t, kind, d, payload) /\ pendingRequests[ResponseKey(kind, d)] = 0 =>
         /\ Settles(out') = <<>>
         /\ UNCHANGED <<client, connected, authorizedDeviceId, reconnectAttempts,
                        reconnectTimer, credentialsRefreshTimer, isIntentionalDisconnect,
                        subscribedDevices, pendingRequests, reqTimer, reqKey, settled,
                        nextReq, breaker, calls, transports, closeTimers, crashed,
                        hist>>]_vars

\* the answer to the get of d1 arrived after its deadline had rejected the caller:
\* the caller is not settled again, the update of d1 still waits
C20_Witness ==
  /\ out = << <<"onStateChange", "reported", "d1">> >>
  /\ \E r \in ReqIds : reqKey[r] = <<"get", "d1">> /\ settled[r] = <<"Request timeout">>
  /\ pendingRequests[<<"get", "d1">>] = 0
  /\ pendingRequests[<<"update", "d1">>] # 0

\* C21: a message whose payload is not JSON, or whose topic is not a shadow topic,
\* is dropped: nothing is reported to onError or to the state-change observer, no
\* caller is settled, no exception escapes, and the session state, the pending
\* table and every timer are as they were.
C21_UnrecognizedDropped ==
  [][\A t \in TIds, d \in Devices, payload \in Payloads :
     \A kind \in {"nonjson", "nomatch"} :
       TransportMessage(t, kind, d, payload) =>
         /\ out' = <<>>
         /\ UNCHANGED <<client, connected, authorizedDeviceId, reconnectAttempts,
                        reconnectTimer, credentialsRefreshTimer, isIntentionalDisconnect,
                        subscribedDevices, pendingRequests, reqTimer, reqKey, settled,
                        nextReq, breaker, calls, transports, closeTimers, crashed,
                        hist>>]_vars

\* foreign traffic arrived right after the second request was published: both
\* requests still wait with their full deadlines and nothing was reported
C21_Witness ==
  /\ out = <<>>
  /\ connected /\ ~crashed
  /\ pendingRequests[<<"get", "d1">>] # 0 /\ pendingRequests[<<"update", "d1">>] # 0
  /\ \A r \in PendingIds(S) : reqTimer[r] = DefaultTimeoutMs /\ settled[r] = <<>>

\* C22: an 'error' emitted by the transport of the established connection is
\* delivered to the onError callback.
C22_EstablishedErrorReported ==
  [][\A t \in TIds :
       TransportErrors(t) /\ transports[t].st = "open" /\ client = t /\ connected =>
         \E i \in DOMAIN out' : out'[i][1] = "onError"]_vars

\* the raw keys probed for each canonical attribute, in the parser's order
Attributes == {"power", "mode", "fanSpeed", "pm25", "humidity", "temperature",
               "airQualityIndex", "targetHumidity", "childLock", "displayLight", "filter"}

CandidateKeys(attr) ==
  CASE attr = "power" -> <<"D03102", "powerOn", "pwr">>
    [] attr = "mode" -> <<"D0310C", "mode">>
    [] attr = "fanSpeed" -> <<"D0310C", "om", "fanSpeed">>
    [] attr = "pm25" -> <<"D03221", "pm25">>
    [] attr = "humidity" -> <<"D03125", "rh", "humidity">>
    [] attr = "temperature" -> <<"D03224", "temp", "temperature">>
    [] attr = "airQualityIndex" -> <<"D03120", "iaql", "airQualityIndex">>
    [] attr = "targetHumidity" -> <<"rhset", "targetHumidity">>
    [] attr = "childLock" -> <<"D0312B", "cl", "childLock">>
    [] attr = "displayLight" -> <<"D0310D", "uil", "displayLight">>
    [] OTHER -> <<"D0540E", "D05408", "fltsts0", "fltsts1", "fltt0", "fltt1">>

v3_CandidateKeys(attr) ==
  CASE attr = "power" -> <<"D03102">>
    [] attr = "mode" -> <<"D0310C">>
    [] attr = "fanSpeed" -> <<"D0310C">>
    [] attr = "pm25" -> <<"D03221">>
    [] attr = "humidity" -> <<"D03125">>
    [] attr = "temperature" -> <<"D03224">>
    [] attr = "airQualityIndex" -> <<"D03120">>
    [] attr = "targetHumidity" -> <<"D03128">>
    [] attr = "childLock" -> <<"D03103">>
    [] attr = "displayLight" -> <<"D03105">>
    [] OTHER -> <<"D0540E", "D05408", "fltsts0", "fltsts1", "fltt0", "fltt1">>

Range(seq) == {seq[i] : i \in DOMAIN seq}

\* parseReportedState has returned (the round trip keeps its argument and result)
Parsed == parser.returned /\ parser.fn \in {"parseReportedState", "roundTrip"}
v3_Parsed == parser.returned /\ parser.fn \in {"v3_parseReportedState", "v3_roundTrip"}

\* C23: whatever the reported document, a canonical attribute none of whose
\* candidate raw keys is in the document is not a key of the parsed status (it is
\* not there with null, 0 or false); checked for both parsers, each with the keys
\* it probes.
C23_AbsentAttributeOmitted ==
  /\ Parsed =>
       \A attr \in Attributes :
         Range(CandidateKeys(attr)) \cap DOMAIN parser.reported = {} =>
           attr \notin DOMAIN parser.status
  /\ v3_Parsed =>
       \A attr \in Attributes :
         Range(v3_CandidateKeys(attr)) \cap DOMAIN parser.reported = {} =>
           attr \notin DOMAIN parser.status

\* a document with nothing but a key the parser does not know came back as a
\* status that holds the raw document and no attribute
C23_Witness ==
  /\ Parsed
  /\ parser.reported = [rssi |-> Str("50")]
  /\ DOMAIN parser.status = {"raw"}

\* the decoding of the combined code that the specification gives
ExpectedMode(n) ==
  CASE n = 0 -> "auto" [] n = 17 -> "sleep" [] n = 18 -> "turbo"
    [] n \in 1..16 -> "manual"
    [] OTHER -> "mode_" \o ToString(n)

\* C24: a reported D0310C of 0 is mode auto, 17 sleep, 18 turbo, a value in 1..16
\* mode manual with that value as fanSpeed, and any other number N the label
\* mode_N; the combined code gives a fan speed only in the manual range.  The
\* scenario {D03102: 1, D0310C: 17, D03221: 5} is power on, mode sleep, pm25 5,
\* and {D0310C: 2} is mode manual, fanSpeed 2.
C24_ModeCodeDecoded ==
  (Parsed \/ v3_Parsed) /\ Has(parser.reported, "D0310C") =>
    LET code == parseInt(parser.reported["D0310C"])
    IN /\ Has(parser.status, "mode")
       /\ code.type = "number" =>
            /\ parser.status["mode"] = Str(ExpectedMode(code.v))
            /\ code.v \in 1..16 => Get(parser.status, "fanSpeed") = code
            /\ code.v \notin 1..16 /\ DOMAIN parser.reported \cap {"om", "fanSpeed"} = {} =>
                 ~Has(parser.status, "fanSpeed")
       /\ parser.reported = [D03102 |-> Num(1), D0310C |-> Num(17), D03221 |-> Num(5)] =>
            /\ DOMAIN parser.status = {"raw", "power", "modeRaw", "mode", "pm25"}
            /\ parser.status["power"] = Bool(TRUE)
            /\ parser.status["pm25"] = Num(5)

\* the scenario document was parsed into power on, mode sleep, PM2.5 of 5
C24_Witness ==
  /\ Parsed
  /\ parser.reported = [D03102 |-> Num(1), D0310C |-> Num(17), D03221 |-> Num(5)]
  /\ parser.status["mode"] = Str("sleep")
  /\ parser.status["power"] = Bool(TRUE)
  /\ parser.status["pm25"] = Num(5)

\* the attributes of a command that the builder translates
CommandAttributes == {"power", "mode", "fanSpeed", "targetHumidity", "childLock", "displayLight"}

\* a command specifies an attribute when the key is there with a value
Specifies(options, attr) == Has(options, attr) /\ options[attr] # undefined

\* the newest-generation identifier of an attribute: the key its parser probes first
NewestKey(attr) == CandidateKeys(attr)[1]
v3_NewestKey(attr) == v3_CandidateKeys(attr)[1]

Built == parser.returned /\ parser.fn \in {"buildDesiredState", "roundTrip"}
v3_Built == parser.returned /\ parser.fn \in {"v3_buildDesiredState", "v3_roundTrip"}

\* C25: every key of a built patch is the newest-generation identifier of an
\* attribute that the command specifies (nothing is emitted for an attribute the
\* command leaves out), and the command {power: false} gives exactly {D03102: 0}.
C25_PatchNewestKeysOnly ==
  /\ Built =>
       /\ \A key \in DOMAIN parser.desired :
            \E attr \in CommandAttributes :
              Specifies(parser.options, attr) /\ key = NewestKey(attr)
       /\ parser.options = [power |-> Bool(FALSE)] => parser.desired = [D03102 |-> Num(0)]
  /\ v3_Built =>
       /\ \A key \in DOMAIN parser.desired :
            \E attr \in CommandAttributes :
              Specifies(parser.options, attr) /\ key = v3_NewestKey(attr)
       /\ parser.options = [power |-> Bool(FALSE)] => parser.desired = [D03102 |-> Num(0)]

\* the part of C25 that does not depend on the generation of the keys: a patch has
\* a key only for an attribute the command specifies
KeysOf(attr) == Range(CandidateKeys(attr)) \cup Range(v3_CandidateKeys(attr))

C25_OnlySpecifiedEmitted ==
  Built \/ v3_Built =>
    /\ \A key \in DOMAIN parser.desired :
         \E attr \in CommandAttributes : Specifies(parser.options, attr) /\ key \in KeysOf(attr)
    /\ parser.options = [power |-> Bool(FALSE)] => parser.desired = [D03102 |-> Num(0)]

C25_Witness ==
  /\ Built
  /\ parser.options = [power |-> Bool(FALSE)]
  /\ parser.desired = [D03102 |-> Num(0)]

\* the fields of the newest generation that have a command attribute, per file
NewestFields == {NewestKey(attr) : attr \in CommandAttributes}
v3_NewestFields == {v3_NewestKey(attr) : attr \in CommandAttributes}

\* a mode/fan-speed code in its valid range
ValidCode(v) == v.type = "number" /\ v.v \in 0..18

OnlyNewest(x, fields) ==
  /\ DOMAIN x # {}
  /\ DOMAIN x \subseteq fields
  /\ Has(x, "D0310C") => ValidCode(x["D0310C"])

Reproduced(x, desired) == \A k \in DOMAIN x : Has(desired, k) /\ desired[k] = x[k]

\* C26: for a reported document x that has only newest-generation fields (power,
\* mode/fan-speed code in 0..18, target humidity, child lock, display brightness),
\* buildDesiredState(parseReportedState(x)) has each field of x with the value it
\* has in x; stated for the parser and builder of src/lib/parser.js and for the
\* pair of the v3-only variant.
C26_RoundTrip ==
  /\ parser.returned /\ parser.fn = "roundTrip" /\ OnlyNewest(parser.reported, NewestFields) =>
       Reproduced(parser.reported, parser.desired)
  /\ parser.returned /\ parser.fn = "v3_roundTrip" /\ OnlyNewest(parser.reported, v3_NewestFields) =>
       Reproduced(parser.reported, parser.desired)

\* the two pairs apart
C26_RoundTrip_lib ==
  parser.returned /\ parser.fn = "roundTrip" /\ OnlyNewest(parser.reported, NewestFields) =>
    Reproduced(parser.reported, parser.desired)

C26_RoundTrip_v3 ==
  parser.returned /\ parser.fn = "v3_roundTrip" /\ OnlyNewest(parser.reported, v3_NewestFields) =>
    Reproduced(parser.reported, parser.desired)

\* the round trip with the child lock, the display light and the manual codes
\* above the builder's clamp left out
C26_RoundTrip_powerMode ==
  parser.returned /\ parser.fn \in {"roundTrip", "v3_roundTrip"}
    /\ OnlyNewest(parser.reported, {"D03102", "D0310C"})
    /\ (parser.fn = "v3_roundTrip" /\ Has(parser.reported, "D0310C") =>
          parser.reported["D0310C"].v \notin 3..16) =>
      Reproduced(parser.reported, parser.desired)

Merged == parser.returned /\ parser.fn = "mergeStatus"

\* key-wise merge of two objects, the second taking precedence
KeyWise(old, new, result) ==
  /\ DOMAIN result = DOMAIN old \cup DOMAIN new
  /\ \A j \in DOMAIN new : result[j] = new[j]
  /\ \A j \in DOMAIN old \ DOMAIN new : result[j] = old[j]

\* C27: mergeStatus(existing, update) keeps every field of existing that update
\* does not name; a field that update gives with a defined value has that value; a
\* field that update sets to undefined keeps the value of existing (and is not
\* created when existing has none); raw and filter are merged key by key, the keys
\* of update taking precedence and the keys only in existing kept.  The timestamp
\* is the one field always written.
C27_MergeFieldWise ==
  Merged =>
    LET e == parser.existing
        u == parser.update
        m == parser.merged
    IN /\ \A k \in DOMAIN e \ (DOMAIN u \cup {"timestamp"}) : Has(m, k) /\ m[k] = e[k]
       /\ \A k \in DOMAIN u \ {"raw", "filter", "timestamp"} :
            IF u[k] # undefined THEN Has(m, k) /\ m[k] = u[k]
            ELSE IF Has(e, k) THEN Has(m, k) /\ m[k] = e[k]
            ELSE ~Has(m, k)
       /\ Has(u, "raw") /\ u["raw"].type = "object" =>
            /\ Has(m, "raw")
            /\ KeyWise(IF Has(e, "raw") THEN e["raw"].v ELSE EmptyObject, u["raw"].v, m["raw"].v)
       /\ Has(u, "raw") /\ u["raw"] = undefined /\ Has(e, "raw") =>
            Has(m, "raw") /\ m["raw"] = e["raw"]
       /\ Has(u, "filter") /\ u["filter"].type = "object" =>
            /\ Has(m, "filter")
            /\ KeyWise(IF Has(e, "filter") THEN e["filter"].v ELSE EmptyObject,
                       u["filter"].v, m["filter"].v)
       /\ Has(u, "filter") /\ u["filter"] = undefined =>
            IF Has(e, "filter") THEN Has(m, "filter") /\ m["filter"] = e["filter"]
            ELSE ~Has(m, "filter")
       /\ Has(m, "timestamp") /\ m["timestamp"] = Now

\* a merge where existing had raw and filter keys of its own, update gave new keys
\* for both and an undefined field, and the result has the keys of both
C27_Witness ==
  /\ Merged
  /\ \E k \in DOMAIN parser.update : parser.update[k] = undefined /\ Has(parser.existing, k)
  /\ Has(parser.existing, "raw") /\ Has(parser.update, "raw")
  /\ parser.update["raw"].type = "object"
  /\ DOMAIN parser.existing["raw"].v \ DOMAIN parser.update["raw"].v # {}
  /\ DOMAIN parser.update["raw"].v \ DOMAIN parser.existing["raw"].v # {}
  /\ DOMAIN parser.merged["raw"].v = DOMAIN parser.existing["raw"].v \cup DOMAIN parser.update["raw"].v
  /\ Has(parser.existing, "filter") /\ Has(parser.update, "filter")
  /\ parser.update["filter"].type = "object"
  /\ DOMAIN parser.existing["filter"].v \ DOMAIN parser.update["filter"].v # {}

\* C28: the handshake of a transport leaves the session Connected, the circuit
\* breaker Closed with a consecutive-failure count of 0, and the reconnect attempt
\* counter at 0, whatever failures came before.
C28_HandshakeResetsBreaker ==
  [][\A t \in TIds :
       TransportConnects(t) =>
         /\ connected'
         /\ reconnectAttempts' = 0
         /\ breaker'.state = "closed"
         /\ breaker'.failures = 0]_vars

\* the same for the handshake that arrives while its connect() is still waiting
\* for it, and no other invocation starts in the same step
C28_AwaitedHandshakeResets ==
  [][\A t \in TIds :
       TransportConnects(t) /\ Owner(S, t) # {} =>
         /\ connected'
         /\ reconnectAttempts' = 0
         /\ breaker'.state = "closed"
         /\ breaker'.failures = 0]_vars

\* the session part alone: Connected and the attempt counter at 0
C28_HandshakeResetsAttempts ==
  [][\A t \in TIds : TransportConnects(t) => connected' /\ reconnectAttempts' = 0]_vars

\* an attempt on the network: the credential supplier is called or a transport opened
Attempting == \E c \in CallIds : calls[c].pc \in {"awaitInfo", "awaitHandshake", "awaitClose"}

\* C29: while the circuit breaker is Open no reconnect timer is armed and no
\* connect attempt is in progress.
C29_OpenSuppressesReconnect ==
  breaker.state = "open" => reconnectTimer = NoTimer /\ ~Attempting

\* C29, second half: a retry of the reconnect timer that is refused by the open
\* breaker does not arm the timer again.
C29_RefusedRetryNotRescheduled ==
  [][ReconnectTimerFires /\ breaker.state = "open" /\ breaker.openFor < halfOpenAfter =>
       reconnectTimer' = NoTimer]_vars

\* C29, first half for the step that opens the breaker
C29_OpeningLeavesNoTimer ==
  [][breaker.state # "open" /\ breaker'.state = "open" => reconnectTimer' = NoTimer]_vars

\* the rotation timer's reconnect() is waiting for transport t, which it ended, to close
RotationWaitsFor(t) ==
  \E c \in CallIds :
    calls[c].origin = "refresh" /\ calls[c].pc = "awaitClose" /\ calls[c].t = t

\* C30: when the rotation timer fires on a session with a transport, the transport
\* is ended and a new connect is under way; the close of that transport, arriving
\* while the rotation waits for it, arms no reconnect timer and leaves the reconnect
\* attempt counter as it was.
C30_RotationCloseExpected ==
  [][/\ CredentialsRefreshFires /\ client # 0 /\ breaker.state = "closed" =>
          transports'[client].ended /\ RotationWaitsFor(client)'
     /\ \A t \in TIds :
          TransportCloses(t) /\ RotationWaitsFor(t) =>
            reconnectTimer' = reconnectTimer /\ reconnectAttempts' = reconnectAttempts]_vars

\* the same where no close handler has run since the rotation raised the flag
C30_RotationCloseExpected_single ==
  [][/\ CredentialsRefreshFires /\ client # 0 /\ breaker.state = "closed" =>
          transports'[client].ended /\ RotationWaitsFor(client)'
     /\ \A t \in TIds :
          TransportCloses(t) /\ RotationWaitsFor(t) /\ isIntentionalDisconnect =>
            reconnectTimer' = reconnectTimer /\ reconnectAttempts' = reconnectAttempts]_vars

\* the requests issued so far for the key of request r
SameKey(r) == {x \in Issued : reqKey[x] = reqKey[r]}

\* C31: whenever a request is resolved successfully, it had not been settled before
\* (not superseded, timed out, rejected or failed by disconnect), it was the entry
\* of its key, and no later request had been issued for that key; and no request
\* has a successful resolution after another settlement.
C31_OnlyLatestResolved ==
  [][\A r \in ReqIds :
       /\ settled'[r] # settled[r] /\ settled'[r][Len(settled'[r])] = "resolved" =>
            /\ settled[r] = <<>>
            /\ pendingRequests[reqKey[r]] = r
            /\ \A x \in SameKey(r) : x <= r
       /\ \A i \in DOMAIN settled'[r] : settled'[r][i] = "resolved" => i = 1]_vars

\* the first request was superseded, and the accepted response resolved the second
C31_Witness ==
  /\ settled[1] = <<"Superseded">>
  /\ settled[2] = <<"resolved">>
  /\ reqKey[1] = reqKey[2]

Reported(o, result) == \E i \in DOMAIN o : o[i][2] = result

\* C33: when the 15 s handshake timer of a connect attempt fires, the attempt ends
\* with the connection-timeout error, which reaches whoever awaited the attempt, and
\* the circuit breaker counts one more failure.
C33_HandshakeTimeoutFails ==
  [][\A c \in CallIds :
       ConnectTimeoutFires(c) =>
         /\ calls'[c].pc # "awaitHandshake"
         /\ Reported(out', "ConnectTimeout")
         /\ breaker'.failures = breaker.failures + 1]_vars

\* the same for an attempt made while the connected flag is down
C33_HandshakeTimeoutFails_disconnected ==
  [][\A c \in CallIds :
       ConnectTimeoutFires(c) /\ ~connected =>
         /\ calls'[c].pc # "awaitHandshake"
         /\ Reported(out', "ConnectTimeout")
         /\ breaker'.failures = breaker.failures + 1]_vars

Observed(n, d) == Has(n.statusCallbacks, d)
Cached(n, d) == Has(n.deviceStatus, d)

\* C34: while a device has an observer its accumulated status is kept and every
\* attribute it has stays in it across updates; when the last observer of the
\* device unsubscribes the status is discarded.
C34_StatusLifetime ==
  [][\A d \in Scope :
       /\ Observed(node, d) /\ Observed(node', d) /\ Cached(node, d) =>
            /\ Cached(node', d)
            /\ DOMAIN node.deviceStatus[d] \subseteq DOMAIN node'.deviceStatus[d]
       /\ \A o \in Observers :
            Node_unsubscribe(d, o) /\ Observed(node, d) /\ ~Observed(node', d) =>
              ~Cached(node', d)]_vars

\* the first half alone: kept and merged while observed
C34_StatusRetainedWhileObserved ==
  [][\A d \in Scope :
       Observed(node, d) /\ Observed(node', d) /\ Cached(node, d) =>
         /\ Cached(node', d)
         /\ DOMAIN node.deviceStatus[d] \subseteq DOMAIN node'.deviceStatus[d]]_vars

\* what a subscriber gets after everybody had unsubscribed: never a status, if the
\* cache were emptied with the last observer and filled only while observed
C34_NoStatusWithoutObserver == \A d \in Scope : Cached(node, d) => Observed(node, d)

\* a transport that is connecting or connected and on which end() was not called
Live(t) == transports[t].st \in {"connecting", "open"} /\ ~transports[t].ended

\* C35: from disconnect() until the caller's next connect() the session is not
\* Connected, no transport is left running and no rotation timer is armed, also
\* when a connect attempt was in flight at the time of disconnect().
C35_DisconnectStaysDown ==
  hist.down =>
    /\ ~connected
    /\ credentialsRefreshTimer = NoTimer
    /\ \A t \in TIds : ~Live(t)

\* the same for a disconnect() made with no connect attempt in flight and no
\* transport waiting for a late handshake
C35_DisconnectStaysDown_idle ==
  [][Do_disconnect /\ ~InFlight =>
       /\ ~connected'
       /\ credentialsRefreshTimer' = NoTimer
       /\ \A t \in TIds : ~Live(t)']_vars

\* C36: at most one transport on which end() was not called is connecting or
\* connected at any time.
C36_OneLiveTransport == Cardinality({t \in TIds : Live(t)}) <= 1

\* the same stated on the session's handle: a transport that is running and was
\* not ended is the one held in `client`
C36_LiveIsCurrent == \A t \in TIds : Live(t) => client = t

\* transport t is not the one the session holds: it was replaced by a newer one,
\* or discarded by disconnect() or by the close-wait fallback
Stale(t) == client # t
StaleEvent(t) == Stale(t) /\ (TransportConnects(t) \/ TransportCloses(t) \/ TransportErrors(t))

\* the three parts of the session state the claim names; the connected flag may
\* still drop to false when the current transport has no handshake to lose
Untouched ==
  /\ connected' = connected \/ (~connected' /\ (client = 0 \/ transports[client].st # "open"))
  /\ reconnectTimer' = reconnectTimer
  /\ reconnectAttempts' = reconnectAttempts

\* C37: a connect, close or error event of a transport that is no longer the
\* session's current one does not change the connected flag of the current
\* transport, arms no reconnect timer and leaves the reconnect attempt counter
\* as it was.
C37_StaleEventInert == [][\A t \in TIds : StaleEvent(t) => Untouched]_vars

\* the close event of a replaced transport alone
C37_ReplacedCloseInert ==
  [][\A t \in TIds : (client # 0 /\ Stale(t) /\ TransportCloses(t)) => Untouched]_vars

\* the error event of a discarded transport alone
C37_StaleErrorInert ==
  [][\A t \in TIds : (Stale(t) /\ TransportErrors(t)) => Untouched]_vars

\* with no connect attempt in flight, the events of a transport that
\* disconnect() ended change none of the three
C37_DiscardedInert ==
  [][\A t \in TIds : (client = 0 /\ calls = [c \in CallIds |-> IdleCall] /\ StaleEvent(t)) => Untouched]_vars

\* C38: connected = true implies that the session holds a transport handle and
\* that this transport has completed its handshake and has not closed since.
C38_ConnectedHasOpenTransport ==
  connected => (client # 0 /\ transports[client].st = "open")

\* the weaker statement: connected = true implies that some transport of the
\* session has completed its handshake and has not closed since
C38_ConnectedSomeOpen ==
  connected => \E t \in TIds : transports[t].st = "open"

\* C39: in the state reached by the handshake of a transport, the
\* intentional-disconnect flag is false.
C39_FlagClearAfterHandshake ==
  [][\A t \in TIds : TransportConnects(t) => ~isIntentionalDisconnect']_vars

\* C40: every entry of the pending-request table is a request stored under its
\* own key whose deadline timer is armed, and every armed deadline timer is
\* that of the request currently stored under its key.
C40_TableMatchesTimers ==
  /\ \A k \in Keys : pendingRequests[k] # 0 =>
        /\ reqKey[pendingRequests[k]] = k
        /\ reqTimer[pendingRequests[k]] # NoTimer
  /\ \A r \in ReqIds : reqTimer[r] # NoTimer => pendingRequests[reqKey[r]] = r

\* the expiry of a deadline finds the request of that deadline under its key,
\* rejects that request only and leaves the entries of the other keys alone
C40_ExpiryRemovesOwnEntry ==
  [][\A r \in ReqIds : RequestTimeoutFires(r) =>
        /\ pendingRequests[reqKey[r]] = r
        /\ pendingRequests'[reqKey[r]] = 0
        /\ settled'[r] = <<"Request timeout">>
        /\ \A q \in ReqIds \ {r} : settled'[q] = settled[q] /\ reqTimer'[q] = reqTimer[q]
        /\ \A k \in Keys \ {reqKey[r]} : pendingRequests'[k] = pendingRequests[k]]_vars

\* a get was superseded by a later get for the same device: the entry of the key
\* is the later request, whose deadline is running, and the deadline of the
\* superseded one is no longer armed
C40_Witness ==
  /\ nextReq = 2
  /\ reqKey[1][1] = "get" /\ reqKey[2] = reqKey[1]
  /\ settled[1] = <<"Superseded">> /\ reqTimer[1] = NoTimer
  /\ pendingRequests[reqKey[2]] = 2
  /\ reqTimer[2] # NoTimer /\ reqTimer[2] < DefaultTimeoutMs

====
